---- MODULE Spec2Model ----
(***************************************************************************)
(* Streaming chat orchestration of NextCharService: chat(), abort(),       *)
(* isReady().  One orchestrator instance; the call stack of the async      *)
(* recursive chat() is explicit, one frame per round-trip, and every       *)
(* action is the code that runs between two awaits.  The Message component *)
(* of one stored message: its 'store:toolCallAppended' handler, the store's *)
(* updateMessage, and renderMessageContent.                                *)
(***************************************************************************)
EXTENDS Integers, Sequences, FiniteSets, TLC

\* ---------------------------------------------------------------- bounds
\* Rounds of a top-level call, counted from the first, that may continue the
\* chain whatever they streamed.  A deeper round continues the chain only
\* while the chain is plain: no text, no parse error reported, no finalized
\* tool calls, DefaultTool with a successful result in every round, no abort,
\* no second call in flight.
\* At most one round brings finalized tool calls along with its pending
\* tool.  Every round may end the chain in every way.
MaxVaried == 1
\* Text fragments streamed in one round.
MaxChunks == 1
\* abort() calls during one top-level call.
MaxAborts == 1
\* Cap on each cumulative token counter.
MaxTokens == 4
\* isReady() calls recorded.
MaxReady == 1
\* Tool calls of the stored message when the component mounts.
MaxStored == 1
\* Characters of a reply.
MaxReply == 2
\* Tool calls of a rendered message.
MaxCalls == 2
\* Messages createMessage adds to the chat store.
MaxMessages == 2
\* Fragments appendReply adds to the reply of one message.
MaxAppends == 1
\* Invocations of the completion handler that throw, one after the other.
MaxThrows == 2

\* ------------------------------------------------------- program constants
MAX_RECURSION_DEPTH == 10

\* ------------------------------------------------------------ input values
\* A tool key is the sequence of the segments that '--' separates.
DefaultTool == <<"a", "x">>
Tools == {<<"a", "x">>, <<"a", "b", "c">>}
\* What the Tool Host resolves with: a result or a failure value.
ToolResults == {"ok", "fail"}
\* (inputTokens, outputTokens) of one StreamReadResult; 0 is "not reported".
TokenReports == {<<0, 0>>, <<1, 2>>}
\* HTTP status of a response.
Statuses == {200, 204, 401}
\* API settings: TRUE when the field holds a non-empty string.
Settings ==
  { [model |-> TRUE, base |-> TRUE, key |-> TRUE],
    [model |-> TRUE, base |-> TRUE, key |-> FALSE] }

\* An error value: code 0 stands for "no code property".
NoError == [code |-> 0, message |-> ""]
NetworkError == [code |-> 0, message |-> "network"]
AbortError == [code |-> 20, message |-> "aborted"]
DecodeError == [code |-> 0, message |-> "decode"]
ParserError == [code |-> 0, message |-> "parser"]
ToolError == [code |-> 0, message |-> "tool"]
ToolMessagesError == [code |-> 0, message |-> "toolmessages"]
NoReaderError == [code |-> 0, message |-> "No reader"]
\* What the parser hands to its error sub-callback (a parse error it skips).
ParserReport == [code |-> 0, message |-> "report"]
\* readResult.error of a drained stream.
ReadErrors == {NoError, [code |-> 400, message |-> "stream"]}
\* readResult.toolCalls: absent (<<>>) or a list of already-finalized calls.
FinalizedLists ==
  { <<>>, <<[name |-> <<"b", "y">>, args |-> 0, response |-> "done"]>> }

NoTool == [name |-> <<>>, args |-> 0]
\* No stream of the call has been drained by a terminal round yet.
NoRead == [round |-> 0, toolCalls |-> <<>>, error |-> NoError]

VARIABLES
  \* fields of the orchestrator
  inputTokens, outputTokens, toolCallsWithResponses, currentRecursionDepth,
  abortController, abortedSignals, apiSettings,
  \* the call stack of chat(); whether an exception left the top-level call
  stack, escaped,
  \* what the collaborators have seen in the current top-level call
  called, completions, errorLog, progressLog, requests, hostCalls, executed,
  tokenSum, startTokens, leftover, aborts, abortInFlight, finalRead, failed,
  raised, abortAtTool, roundFinalized, events,
  \* a second top-level call whose continuation is not the one running
  other,
  \* the provider's apiSchema and the results of the isReady() calls
  apiSchema, readyResults,
  \* the Message component of one stored message: the message in the chat
  \* store, the component's refs, the updateMessage call awaiting db.run,
  \* the last 'store:toolCallAppended' event addressed to the message and
  \* what the handler did with it, states.runningTool, and the segments
  \* renderMessageContent returned last
  message, isProcessingRef, toolCallsRef, pendingUpdate, lastEvent,
  runningTool, segments,
  \* the chat store: its messages state (storeMessages), the store call
  \* awaiting the database (at most one at a time), the number of ids
  \* createMessage has drawn, and the last step a store function took
  storeMessages, dbCalls, created, storeEvent

codeVars == <<inputTokens, outputTokens, toolCallsWithResponses,
              currentRecursionDepth, abortController, abortedSignals,
              apiSettings, stack, escaped>>
seenVars == <<called, completions, errorLog, progressLog, requests, hostCalls,
              executed, tokenSum, startTokens, leftover, aborts, abortInFlight,
              finalRead, failed, raised, abortAtTool, roundFinalized, events>>
readyVars == <<apiSchema, readyResults>>
\* The state the chat actions do not touch.
messageVars == <<message, isProcessingRef, toolCallsRef, pendingUpdate,
                 lastEvent, runningTool, segments>>
storeVars == <<storeMessages, dbCalls, created, storeEvent>>
sideVars == <<readyVars, messageVars, storeVars>>
vars == <<codeVars, seenVars, other, sideVars>>

\* --------------------------------------------------------------- helpers
\* What the collaborators have seen of the running top-level call.
Seen ==
  [called |-> called, completions |-> completions, errorLog |-> errorLog,
   progressLog |-> progressLog, requests |-> requests, hostCalls |-> hostCalls,
   executed |-> executed, tokenSum |-> tokenSum, startTokens |-> startTokens,
   leftover |-> leftover, aborts |-> aborts, abortInFlight |-> abortInFlight,
   finalRead |-> finalRead, failed |-> failed, raised |-> raised,
   abortAtTool |-> abortAtTool, roundFinalized |-> roundFinalized,
   events |-> events]

\* An invocation of the error or the completion callback: kind is "report"
\* (the parser's error sub-callback forwarded to the error callback), "error"
\* or "complete"; round is the round-trip whose code invoked it, fragments
\* the number of text fragments the progress callback had been given.
Event(kind, round) ==
  [kind |-> kind, round |-> round, fragments |-> Len(progressLog)]

\* The parser has reported an error in round r of the call.
Reported(r) ==
  \E i \in DOMAIN events : events[i].kind = "report" /\ events[i].round = r

\* No second top-level call is in flight.
NoOther == [stack |-> <<>>]

Top == stack[Len(stack)]
WithTop(stk, f) == [stk EXCEPT ![Len(stk)] = f]
AtPc(p) == stack # <<>> /\ Top.pc = p
SignalAborted(f) == f.signal \in abortedSignals

\* The apiSchema of the provider of this service (all three fields required).
MoonshotSchema == {"model", "base", "key"}

\* Variant: the credential is not looked at.
isReadyIgnoresKey ==
  IF "model" \in apiSchema /\ ~apiSettings.model THEN FALSE
  ELSE IF "base" \in apiSchema /\ ~apiSettings.base THEN FALSE
  ELSE TRUE

isReady ==
  IF "model" \in apiSchema /\ ~apiSettings.model THEN FALSE
  ELSE IF "base" \in apiSchema /\ ~apiSettings.base THEN FALSE
  ELSE IF "key" \in apiSchema /\ ~apiSettings.key THEN FALSE
  ELSE TRUE

\* readResult.tool.name.split('--') destructured into [client, name].
SplitClient(key) == IF Len(key) >= 1 THEN key[1] ELSE ""
SplitName(key) == IF Len(key) >= 2 THEN key[2] ELSE "undefined"

\* The messages a tool result adds to the conversation.
makeToolMessages(tool, toolResult) ==
  << [role |-> "tool", name |-> tool.name, args |-> tool.args,
      content |-> toolResult] >>

\* raiseError(status, json, msg): the error raised for a non-200 response.
raiseError(status) == [code |-> status, message |-> "http"]

\* Variant: the Tool Host is awaited outside the try block.
InTryAfterTool(pc) == pc \in {"request", "errbody", "read", "chat"}

\* pc values whose code lies inside the try block of chat().
InTry(pc) == pc \in {"request", "errbody", "read", "tool", "chat"}

\* The fields set by the field initialisers and the constructor, but for the
\* settings and the provider.
InitService ==
  /\ inputTokens = 0
  /\ outputTokens = 0
  /\ toolCallsWithResponses = <<>>
  /\ currentRecursionDepth = 0
  /\ abortController = 0
  /\ abortedSignals = {}
  /\ stack = <<>>
  /\ escaped = FALSE
  /\ called = FALSE
  /\ completions = <<>>
  /\ errorLog = <<>>
  /\ progressLog = <<>>
  /\ requests = <<>>
  /\ hostCalls = <<>>
  /\ executed = <<>>
  /\ tokenSum = <<0, 0>>
  /\ startTokens = <<0, 0>>
  /\ leftover = FALSE
  /\ aborts = 0
  /\ abortInFlight = [at |-> "none", reply |-> <<>>]
  /\ finalRead = NoRead
  /\ failed = {}
  /\ raised = NoError
  /\ abortAtTool = 0
  /\ roundFinalized = <<>>
  /\ events = <<>>
  /\ other = NoOther
  /\ readyResults = <<>>

\* An undefined value; a defined number n is <<n>>.
Undefined == <<>>

\* No event has been delivered to the component.
NoEvent == [fate |-> "none"]

\* The chat store holds no message, no store call is in flight and no store
\* function has taken a step.
InitNoStore ==
  /\ storeMessages = <<>>
  /\ dbCalls = <<>>
  /\ created = 0
  /\ storeEvent = [op |-> "none"]

\* A Message component showing an empty message without tool calls.
InitNoMessage ==
  /\ InitNoStore
  /\ message = [id |-> "m1", reply |-> <<>>, toolCalls |-> <<>>, isActive |-> FALSE]
  /\ isProcessingRef = FALSE
  /\ toolCallsRef = <<>>
  /\ pendingUpdate = <<>>
  /\ lastEvent = NoEvent
  /\ runningTool = FALSE
  /\ segments = <<>>

\* A new instance whose settings hold every field the provider lists.
Init ==
  /\ InitService
  /\ InitNoMessage
  /\ apiSettings \in {s \in Settings : s.key}
  /\ apiSchema = MoonshotSchema

\* A new instance whose settings lack the credential.
InitNotReady ==
  /\ InitService
  /\ InitNoMessage
  /\ apiSettings \in {s \in Settings : ~s.key}
  /\ apiSchema = MoonshotSchema

\* ------------------------------------------------ outcomes and exceptions
\* Variant: the descriptor always carries code 500.
ErrorDescriptorAlways500(err) == [code |-> 500, message |-> err.message]

\* error: { code: error.code || 500, message: error.message || ... }
ErrorDescriptor(err) ==
  [code |-> IF err.code # 0 THEN err.code ELSE 500, message |-> err.message]

Outcome(content, toolCalls, err) ==
  [content |-> content, toolCalls |-> toolCalls, inputTokens |-> inputTokens,
   outputTokens |-> outputTokens, error |-> err]

\* Text is a sequence of fragments; fragment k >= 1 is the k-th one streamed in
\* the call, and 0 is the fixed text of the ceiling outcome.
CeilingText == <<0>>

CeilingOutcome(tcs) ==
  Outcome(CeilingText, tcs,
          [code |-> 500, message |-> "Maximum recursion depth reached"])

\* Variant: the catch block always passes aborted = false.
CatchBlockNotAborted(stk, err, tcs) ==
  LET f == stk[Len(stk)] IN
  /\ errorLog' = Append(errorLog, [error |-> err, aborted |-> FALSE])
  /\ completions' = Append(completions, Outcome(f.reply, tcs, ErrorDescriptor(err)))
  /\ events' = events \o <<Event("error", Len(stk)), Event("complete", Len(stk))>>
  /\ inputTokens' = 0
  /\ outputTokens' = 0
  /\ escaped' = escaped

\* Variant: the catch block always passes aborted = true.
CatchBlockAlwaysAborted(stk, err, tcs) ==
  LET f == stk[Len(stk)] IN
  /\ errorLog' = Append(errorLog, [error |-> err, aborted |-> TRUE])
  /\ completions' = Append(completions, Outcome(f.reply, tcs, ErrorDescriptor(err)))
  /\ events' = events \o <<Event("error", Len(stk)), Event("complete", Len(stk))>>
  /\ inputTokens' = 0
  /\ outputTokens' = 0
  /\ escaped' = escaped

\* The catch block of chat(), run by the frame on top of stk; the call
\* stack then unwinds to the caller of the top-level call.
CatchBlock(stk, err, tcs) ==
  LET f == stk[Len(stk)] IN
  /\ errorLog' = Append(errorLog, [error |-> err, aborted |-> SignalAborted(f)])
  /\ completions' = Append(completions, Outcome(f.reply, tcs, ErrorDescriptor(err)))
  /\ events' = events \o <<Event("error", Len(stk)), Event("complete", Len(stk))>>
  /\ inputTokens' = 0
  /\ outputTokens' = 0
  /\ escaped' = escaped

\* The innermost frame of stk that is inside its try block (0: none).
Handler(stk) ==
  LET S == {i \in 1..Len(stk) : InTry(stk[i].pc)} IN
  IF S = {} THEN 0 ELSE CHOOSE i \in S : \A j \in S : j <= i

\* An exception is thrown in the frame on top of stk.  It is caught by the
\* innermost frame inside its try block, or leaves the top-level call.
\* Every frame left runs its finally (currentRecursionDepth--); after the
\* catch block the callers return one after the other without an await.
Raise(stk, err, tcs) ==
  /\ stack' = <<>>
  /\ currentRecursionDepth' = currentRecursionDepth - Len(stk)
  /\ IF Handler(stk) # 0
     THEN CatchBlock(SubSeq(stk, 1, Handler(stk)), err, tcs)
     ELSE /\ escaped' = TRUE
          /\ UNCHANGED <<errorLog, completions, inputTokens, outputTokens, events>>

\* The signals held by the frames of stk and of every chat() in flight.
HeldSignals(stk) ==
  {stk[i].signal : i \in 1..Len(stk)}
    \cup {stack[i].signal : i \in 1..Len(stack)}
    \cup {other.stack[i].signal : i \in 1..Len(other.stack)}
MaxOf(S) == CHOOSE m \in S : \A x \in S : x <= m
\* Variant: the controller made by the constructor is kept.
NewControllerReused(stk) == abortController

\* new AbortController(): an identity no frame holds.
NewController(stk) == MaxOf(HeldSignals(stk) \cup {0}) + 1

\* Variant: the reply buffer is the one of the top-level call.
NewFrameSharedReply(messages, signal) ==
  [pc |-> "request", reply |-> progressLog, signal |-> signal,
   messages |-> messages, tool |-> NoTool, status |-> 0]

\* let reply = '': a frame of chat() starts with an empty buffer.
NewFrame(messages, signal) ==
  [pc |-> "request", reply |-> <<>>, signal |-> signal, messages |-> messages,
   tool |-> NoTool, status |-> 0]

\* Variant: the list is reset at every entry of chat().
ResetAtEveryEntry(depth, tcs) == <<>>

\* Variant: the list is never reset.
ResetNever(depth, tcs) == tcs

\* if (this.currentRecursionDepth === 0) this.toolCallsWithResponses = [];
ResetAtTopLevel(depth, tcs) == IF depth = 0 THEN <<>> ELSE tcs

\* Variant: the ceiling test is off by one.
AtCeilingOffByOne(depth) == depth > MAX_RECURSION_DEPTH

\* if (this.currentRecursionDepth >= this.MAX_RECURSION_DEPTH)
AtCeiling(depth) == depth >= MAX_RECURSION_DEPTH

\* The start of chat(messages), up to its first await, entered with the
\* callers' frames stk, the tool-call list tcs, and comps/reqs seen so far.
\* At the ceiling the outcome is delivered and chat returns; its callers
\* then leave their try blocks and return too.
ChatEntry(stk, messages, tcs, comps, reqs) ==
  LET list == ResetAtTopLevel(currentRecursionDepth, tcs) IN
  /\ toolCallsWithResponses' = list
  /\ IF AtCeiling(currentRecursionDepth)
     THEN /\ completions' = Append(comps, CeilingOutcome(list))
          /\ requests' = reqs
          /\ stack' = <<>>
          /\ currentRecursionDepth' = currentRecursionDepth - Len(stk)
          /\ UNCHANGED <<abortController, abortedSignals>>
     ELSE /\ currentRecursionDepth' = currentRecursionDepth + 1
          /\ abortController' = NewController(stk)
          /\ abortedSignals' = abortedSignals \cap HeldSignals(stk)
          /\ requests' = Append(reqs, messages)
          /\ completions' = comps
          /\ stack' = Append(stk, NewFrame(messages, NewController(stk)))

\* ----------------------------------------------------------------- actions
\* A top-level chat(messages) call on the idle orchestrator.
chat ==
  /\ stack = <<>>
  /\ other.stack = <<>>
  /\ ChatEntry(<<>>, <<>>, toolCallsWithResponses, <<>>, <<>>)
  /\ called' = TRUE
  /\ escaped' = FALSE
  /\ errorLog' = <<>>
  /\ progressLog' = <<>>
  /\ hostCalls' = <<>>
  /\ executed' = <<>>
  /\ tokenSum' = <<0, 0>>
  /\ startTokens' = <<inputTokens, outputTokens>>
  /\ leftover' = (toolCallsWithResponses # <<>>)
  /\ aborts' = 0
  /\ abortInFlight' = [at |-> "none", reply |-> <<>>]
  /\ finalRead' = NoRead
  /\ failed' = {}
  /\ raised' = NoError
  /\ abortAtTool' = 0
  /\ roundFinalized' = <<>>
  /\ events' = <<>>
  /\ UNCHANGED <<sideVars, inputTokens, outputTokens, apiSettings, other>>

\* abort(): this.abortController?.abort(), while a call is in flight or not.
abort ==
  /\ \/ stack # <<>> /\ aborts < MaxAborts
     \/ stack = <<>> /\ abortController \notin abortedSignals
  /\ abortedSignals' = abortedSignals \cup {abortController}
  /\ aborts' = IF stack # <<>> THEN aborts + 1 ELSE aborts
  /\ abortInFlight' =
       IF /\ stack # <<>>
          /\ Top.pc \in {"request", "errbody", "read"}
          /\ Top.signal = abortController
          /\ abortInFlight.at = "none"
       THEN [at |-> Top.pc, reply |-> Top.reply]
       ELSE abortInFlight
  \* the number of requests issued when abort() last found the Tool Host awaited
  /\ abortAtTool' =
       IF /\ stack # <<>>
          /\ Top.pc = "tool"
          /\ Top.signal = abortController
       THEN Len(requests)
       ELSE abortAtTool
  /\ UNCHANGED <<sideVars, events, inputTokens, outputTokens, toolCallsWithResponses,
                 currentRecursionDepth, abortController, apiSettings, stack,
                 escaped, called, completions, errorLog, progressLog,
                 requests, hostCalls, executed, tokenSum, startTokens, leftover,
                 finalRead, failed, raised, roundFinalized, other>>

\* makeRequest rejects: a network failure, or the abort of its signal.
RequestFails ==
  /\ AtPc("request")
  /\ LET err == IF SignalAborted(Top) THEN AbortError ELSE NetworkError IN
     /\ raised' = err
     /\ Raise(stack, err, toolCallsWithResponses)
  /\ UNCHANGED <<sideVars, toolCallsWithResponses, abortController, abortedSignals,
                 apiSettings, called, progressLog, requests, hostCalls,
                 executed, tokenSum, startTokens, leftover, aborts,
                 abortInFlight, abortAtTool, roundFinalized, other, finalRead, failed>>

\* makeRequest resolves with a non-200 response: its body is awaited.
ErrorResponse ==
  /\ AtPc("request")
  /\ ~SignalAborted(Top)
  /\ \E status \in Statuses \ {200} :
       stack' = WithTop(stack, [Top EXCEPT !.pc = "errbody", !.status = status])
  /\ UNCHANGED <<sideVars, events, inputTokens, outputTokens, toolCallsWithResponses,
                 currentRecursionDepth, abortController, abortedSignals,
                 apiSettings, escaped, called, completions, errorLog,
                 progressLog, requests, hostCalls, executed, tokenSum,
                 startTokens, leftover, aborts, abortInFlight, abortAtTool, roundFinalized, other, finalRead, failed, raised>>

\* makeRequest resolves with a 200 response that has a body: the reader is
\* created and chatReader.read is awaited.
ResponseArrives ==
  /\ AtPc("request")
  /\ ~SignalAborted(Top)
  /\ stack' = WithTop(stack, [Top EXCEPT !.pc = "read", !.status = 200])
  /\ UNCHANGED <<sideVars, events, inputTokens, outputTokens, toolCallsWithResponses,
                 currentRecursionDepth, abortController, abortedSignals,
                 apiSettings, escaped, called, completions, errorLog,
                 progressLog, requests, hostCalls, executed, tokenSum,
                 startTokens, leftover, aborts, abortInFlight, abortAtTool, roundFinalized, other, finalRead, failed, raised>>

\* Variant: the early return leaves the method without running finally.
NoReaderSkipsFinally(stk) ==
  /\ errorLog' = Append(errorLog, [error |-> NoReaderError, aborted |-> FALSE])
  /\ events' = Append(events, Event("error", Len(stk)))
  /\ stack' = <<>>
  /\ UNCHANGED <<currentRecursionDepth, completions, inputTokens, outputTokens>>

\* if (!reader) { this.onErrorCallback(new Error('No reader'), false); return; }
\* The return is inside the try block: finally runs in this frame, and in
\* its callers as they return.
NoReader(stk) ==
  /\ errorLog' = Append(errorLog, [error |-> NoReaderError, aborted |-> FALSE])
  /\ events' = Append(events, Event("error", Len(stk)))
  /\ stack' = <<>>
  /\ currentRecursionDepth' = currentRecursionDepth - Len(stk)
  /\ UNCHANGED <<completions, inputTokens, outputTokens>>

\* makeRequest resolves with a 200 response without body.
ResponseWithoutBody ==
  /\ AtPc("request")
  /\ ~SignalAborted(Top)
  /\ NoReader(stack)
  /\ UNCHANGED <<sideVars, toolCallsWithResponses, abortController, abortedSignals,
                 apiSettings, escaped, called, progressLog, requests,
                 hostCalls, executed, tokenSum, startTokens, leftover, aborts,
                 abortInFlight, abortAtTool, roundFinalized, other, finalRead, failed, raised>>

\* The body of a non-200 response was decoded, or its decoding failed, or
\* it was aborted: an error is raised in each case.
ErrorBodyDecoded ==
  /\ AtPc("errbody")
  /\ \E err \in IF SignalAborted(Top) THEN {AbortError}
                ELSE {DecodeError, raiseError(Top.status)} :
       /\ raised' = err
       /\ Raise(stack, err, toolCallsWithResponses)
  /\ UNCHANGED <<sideVars, toolCallsWithResponses, abortController, abortedSignals,
                 apiSettings, called, progressLog, requests, hostCalls,
                 executed, tokenSum, startTokens, leftover, aborts,
                 abortInFlight, abortAtTool, roundFinalized, other, finalRead, failed>>

\* Variant: the fragment is handed on without being added to the buffer.
OnProgressNoAppend(f, chunk) == f

\* onProgress: (chunk) => { reply += chunk; this.onReadingCallback(chunk); }
OnProgress(f, chunk) == [f EXCEPT !.reply = Append(@, chunk)]

\* The stream parser hands a text fragment to onProgress (one fragment more
\* in a round in which it has reported an error).
ReadProgress ==
  /\ AtPc("read")
  /\ ~SignalAborted(Top)
  /\ Len(Top.reply) < MaxChunks + (IF Reported(Len(stack)) THEN 1 ELSE 0)
  /\ LET chunk == Len(progressLog) + 1 IN
     /\ stack' = WithTop(stack, OnProgress(Top, chunk))
     /\ progressLog' = Append(progressLog, chunk)
  /\ UNCHANGED <<sideVars, events, inputTokens, outputTokens, toolCallsWithResponses,
                 currentRecursionDepth, abortController, abortedSignals,
                 apiSettings, escaped, called, completions, errorLog,
                 requests, hostCalls, executed, tokenSum, startTokens, leftover,
                 aborts, abortInFlight, abortAtTool, roundFinalized, other, finalRead, failed, raised>>

\* Variant: the report is swallowed.
OnErrorSwallowed(log, err) == log

\* onError: (err: any) => this.onErrorCallback(err, false)
OnError(log, err) == Append(log, [error |-> err, aborted |-> FALSE])

\* onError: (err) => this.onErrorCallback(err, false): the parser reports a
\* parse error through its error sub-callback and goes on reading (once, in
\* the first round of a call that started with zeroed counters and no list
\* left by another call: the handler reads none of them).
ReadError ==
  /\ AtPc("read")
  /\ ~SignalAborted(Top)
  /\ Len(stack) = 1
  /\ ~Reported(1)
  /\ ~leftover
  /\ startTokens = <<0, 0>>
  /\ errorLog' = OnError(errorLog, ParserReport)
  /\ events' = Append(events, Event("report", Len(stack)))
  /\ UNCHANGED <<sideVars, inputTokens, outputTokens, toolCallsWithResponses,
                 currentRecursionDepth, abortController, abortedSignals,
                 apiSettings, stack, escaped, called, completions, progressLog,
                 requests, hostCalls, executed, tokenSum, startTokens, leftover,
                 aborts, abortInFlight, abortAtTool, roundFinalized, other,
                 finalRead, failed, raised>>

\* chatReader.read rejects: the parser fails, or the stream was aborted.
ReadThrows ==
  /\ AtPc("read")
  /\ LET err == IF SignalAborted(Top) THEN AbortError ELSE ParserError IN
     /\ raised' = err
     /\ Raise(stack, err, toolCallsWithResponses)
  /\ UNCHANGED <<sideVars, toolCallsWithResponses, abortController, abortedSignals,
                 apiSettings, called, progressLog, requests, hostCalls,
                 executed, tokenSum, startTokens, leftover, aborts,
                 abortInFlight, abortAtTool, roundFinalized, other, finalRead, failed>>

\* Variant: the counter is overwritten instead of added to.
AddTokensOverwrite(total, reported) == IF reported # 0 THEN reported ELSE total

\* this.inputTokens += readResult.inputTokens (when truthy), same for output.
AddTokens(total, reported) == IF reported # 0 THEN total + reported ELSE total

\* allToolCalls of the terminal round.
AllToolCalls(tcs, finalized) == tcs \o finalized

\* The chain so far is plain.
Plain ==
  /\ other.stack = <<>>
  /\ roundFinalized = <<>>
  /\ errorLog = <<>>
  /\ \A i \in 1..Len(stack) : stack[i].reply = <<>> /\ ~SignalAborted(stack[i])
  /\ \A i \in 1..Len(toolCallsWithResponses) :
       /\ toolCallsWithResponses[i].name = DefaultTool
       /\ toolCallsWithResponses[i].response = "ok"

\* The pending tool a round may ask for.
ToolChoices == IF Len(stack) <= MaxVaried THEN Tools
               ELSE IF Plain THEN {DefaultTool} ELSE {}

\* chatReader.read resolves with a readResult that holds a pending tool (and
\* maybe finalized tool calls, which the tool branch does not read): the
\* tokens are added and the Tool Host is called.
ReadDoneTool ==
  /\ AtPc("read")
  /\ ~SignalAborted(Top)
  /\ \E tok \in TokenReports, key \in ToolChoices,
        finalized \in IF Len(stack) <= MaxVaried /\ roundFinalized = <<>>
                      THEN FinalizedLists ELSE {<<>>} :
       /\ roundFinalized' = roundFinalized \o finalized
       /\ inputTokens + tok[1] <= MaxTokens
       /\ outputTokens + tok[2] <= MaxTokens
       /\ inputTokens' = AddTokens(inputTokens, tok[1])
       /\ outputTokens' = AddTokens(outputTokens, tok[2])
       /\ tokenSum' = <<tokenSum[1] + tok[1], tokenSum[2] + tok[2]>>
       /\ LET tool == [name |-> key, args |-> Len(hostCalls) + 1] IN
          /\ hostCalls' = Append(hostCalls,
               [client |-> SplitClient(key), name |-> SplitName(key),
                args |-> tool.args])
          /\ stack' = WithTop(stack, [Top EXCEPT !.pc = "tool", !.tool = tool])
  /\ UNCHANGED <<sideVars, events, toolCallsWithResponses, currentRecursionDepth, abortController,
                 abortedSignals, apiSettings, escaped, called,
                 completions, errorLog, progressLog, requests, executed,
                 startTokens, leftover, aborts, abortInFlight, abortAtTool, other, finalRead, failed, raised>>

\* The terminal branch of chat(): the outcome is delivered, the counters are
\* reset, and the call stack unwinds.
Terminal(stk, readResult) ==
  /\ completions' = Append(completions,
       [content |-> stk[Len(stk)].reply,
        toolCalls |-> AllToolCalls(toolCallsWithResponses, readResult.toolCalls),
        inputTokens |-> AddTokens(inputTokens, readResult.inputTokens),
        outputTokens |-> AddTokens(outputTokens, readResult.outputTokens),
        error |-> readResult.error])
  /\ events' = Append(events, Event("complete", Len(stk)))
  /\ inputTokens' = 0
  /\ outputTokens' = 0
  /\ stack' = <<>>
  /\ currentRecursionDepth' = currentRecursionDepth - Len(stk)

\* chatReader.read resolves with a readResult without pending tool.
ReadDoneFinal ==
  /\ AtPc("read")
  /\ ~SignalAborted(Top)
  /\ \E tok \in TokenReports, finalized \in FinalizedLists, rerr \in ReadErrors :
       /\ inputTokens + tok[1] <= MaxTokens
       /\ outputTokens + tok[2] <= MaxTokens
       /\ tokenSum' = <<tokenSum[1] + tok[1], tokenSum[2] + tok[2]>>
       /\ finalRead' = [round |-> Len(stack), toolCalls |-> finalized,
                         error |-> rerr]
       /\ Terminal(stack, [toolCalls |-> finalized, inputTokens |-> tok[1],
                           outputTokens |-> tok[2], error |-> rerr])
  /\ UNCHANGED <<sideVars, toolCallsWithResponses, abortController, abortedSignals,
                 apiSettings, escaped, called, errorLog, progressLog, requests,
                 hostCalls, executed, startTokens, leftover, aborts,
                 abortInFlight, abortAtTool, roundFinalized, other, failed, raised>>

\* Variant: the tool call is not recorded before the recursion.
PushToolCallSkipped(tcs, toolCall) == tcs

\* Variant: the new call is put in front of the list.
PushToolCallFront(tcs, toolCall) == <<toolCall>> \o tcs

\* this.toolCallsWithResponses.push(newToolCall)
PushToolCall(tcs, toolCall) == Append(tcs, toolCall)

\* The Tool Host resolves (with a result or a failure value): the call is
\* recorded, the tool messages are built and chat() is entered again.
ToolReturns ==
  /\ AtPc("tool")
  /\ \E toolCallsResult \in IF Len(stack) <= MaxVaried THEN ToolResults ELSE {"ok"} :
       LET newToolCall == [name |-> Top.tool.name, args |-> Top.tool.args,
                           response |-> toolCallsResult]
           tcs == PushToolCall(toolCallsWithResponses, newToolCall)
           messages == Top.messages \o makeToolMessages(Top.tool, toolCallsResult)
       IN
       /\ executed' = Append(executed, newToolCall)
       /\ failed' = IF toolCallsResult = "fail"
                    THEN failed \cup {[args |-> Top.tool.args, how |-> "value"]}
                    ELSE failed
       /\ ChatEntry(WithTop(stack, [Top EXCEPT !.pc = "chat"]), messages, tcs,
                    completions, requests)
       /\ events' = IF AtCeiling(currentRecursionDepth)
                    THEN Append(events, Event("complete", Len(stack) + 1))
                    ELSE events
  /\ UNCHANGED <<sideVars, inputTokens, outputTokens, apiSettings, escaped, called,
                 errorLog, progressLog, hostCalls, tokenSum, startTokens,
                 leftover, aborts, abortInFlight, abortAtTool, roundFinalized, other, finalRead, raised>>

\* The Tool Host resolves but makeToolMessages throws on its result.
ToolMessagesThrow ==
  /\ AtPc("tool")
  /\ \E toolCallsResult \in ToolResults :
       LET newToolCall == [name |-> Top.tool.name, args |-> Top.tool.args,
                           response |-> toolCallsResult]
           tcs == PushToolCall(toolCallsWithResponses, newToolCall)
       IN
       /\ executed' = Append(executed, newToolCall)
       /\ failed' = IF toolCallsResult = "fail"
                    THEN failed \cup {[args |-> Top.tool.args, how |-> "value"]}
                    ELSE failed
       /\ raised' = ToolMessagesError
       /\ toolCallsWithResponses' = tcs
       /\ Raise(stack, ToolMessagesError, tcs)
  /\ UNCHANGED <<sideVars, abortController, abortedSignals, apiSettings, called,
                 progressLog, requests, hostCalls, tokenSum, startTokens,
                 leftover, aborts, abortInFlight, abortAtTool, roundFinalized, other, finalRead>>

\* The Tool Host call rejects.
ToolRejects ==
  /\ AtPc("tool")
  /\ failed' = failed \cup {[args |-> Top.tool.args, how |-> "reject"]}
  /\ raised' = ToolError
  /\ Raise(stack, ToolError, toolCallsWithResponses)
  /\ UNCHANGED <<sideVars, toolCallsWithResponses, abortController, abortedSignals,
                 apiSettings, called, progressLog, requests, hostCalls,
                 executed, tokenSum, startTokens, leftover, aborts,
                 abortInFlight, abortAtTool, roundFinalized, other, finalRead>>

Next ==
  \/ chat
  \/ abort
  \/ RequestFails
  \/ ErrorResponse
  \/ ResponseArrives
  \/ ResponseWithoutBody
  \/ ErrorBodyDecoded
  \/ ReadProgress
  \/ ReadError
  \/ ReadThrows
  \/ ReadDoneTool
  \/ ReadDoneFinal
  \/ ToolReturns
  \/ ToolMessagesThrow
  \/ ToolRejects

Spec == Init /\ [][Next]_vars

SpecNotReady == InitNotReady /\ [][Next]_vars

\* --------------------------------------- a completion handler that throws
\* What a failing completion handler throws.
HandlerError == [code |-> 0, message |-> "handler"]

\* The catch block of frame i of stk runs with the exception err while the
\* counters hold tin and tout: the error callback, then the completion
\* callback again.  When that invocation throws too (throws > 0 more
\* invocations fail), the frame's finally runs and the exception reaches the
\* caller's try block (frame i - 1), or leaves the top-level call.
RECURSIVE CatchChain(_, _, _, _, _, _, _, _, _, _)
CatchChain(stk, i, err, throws, tcs, tin, tout, log, comps, evs) ==
  LET f == stk[i]
      log1 == Append(log, [error |-> err, aborted |-> SignalAborted(f)])
      comps1 == Append(comps,
                  [content |-> f.reply, toolCalls |-> tcs, inputTokens |-> tin,
                   outputTokens |-> tout, error |-> ErrorDescriptor(err)])
      evs1 == evs \o <<[kind |-> "error", round |-> i,
                        fragments |-> Len(progressLog)],
                       [kind |-> "complete", round |-> i,
                        fragments |-> Len(progressLog)]>>
  IN IF throws = 0
     THEN [errorLog |-> log1, completions |-> comps1, events |-> evs1,
           escaped |-> FALSE, inputTokens |-> 0, outputTokens |-> 0]
     ELSE IF i = 1
     THEN [errorLog |-> log1, completions |-> comps1, events |-> evs1,
           escaped |-> TRUE, inputTokens |-> tin, outputTokens |-> tout]
     ELSE CatchChain(stk, i - 1, HandlerError, throws - 1, tcs, tin, tout,
                     log1, comps1, evs1)

\* The call stack unwinds after a completion handler threw: r is what the
\* catch blocks left.
Unwound(r) ==
  /\ errorLog' = r.errorLog
  /\ completions' = r.completions
  /\ events' = r.events
  /\ escaped' = r.escaped
  /\ inputTokens' = r.inputTokens
  /\ outputTokens' = r.outputTokens
  /\ raised' = HandlerError
  /\ currentRecursionDepth' = currentRecursionDepth - Len(stack)
  /\ stack' = <<>>

\* chatReader.read resolves with a readResult without pending tool and the
\* completion handler throws on the terminal outcome (and on throws - 1 of
\* the invocations that follow): the catch block of the same frame runs.
ReadDoneFinalHandlerThrows ==
  /\ AtPc("read")
  /\ ~SignalAborted(Top)
  /\ \E tok \in TokenReports, finalized \in FinalizedLists, rerr \in ReadErrors,
        throws \in 1..MaxThrows :
       LET tin == AddTokens(inputTokens, tok[1])
           tout == AddTokens(outputTokens, tok[2])
           outcome == [content |-> Top.reply,
                       toolCalls |-> AllToolCalls(toolCallsWithResponses, finalized),
                       inputTokens |-> tin, outputTokens |-> tout,
                       error |-> rerr]
       IN
       /\ tin <= MaxTokens
       /\ tout <= MaxTokens
       /\ tokenSum' = <<tokenSum[1] + tok[1], tokenSum[2] + tok[2]>>
       /\ finalRead' = [round |-> Len(stack), toolCalls |-> finalized,
                         error |-> rerr]
       /\ Unwound(CatchChain(stack, Len(stack), HandlerError, throws - 1,
                             toolCallsWithResponses, tin, tout, errorLog,
                             Append(completions, outcome),
                             Append(events, Event("complete", Len(stack)))))
  /\ UNCHANGED <<sideVars, toolCallsWithResponses, abortController, abortedSignals,
                 apiSettings, called, progressLog, requests, hostCalls, executed,
                 startTokens, leftover, aborts, abortInFlight, abortAtTool,
                 roundFinalized, other, failed>>

\* The Tool Host resolves at the depth ceiling and the completion handler
\* throws on the ceiling outcome, which chat() delivers outside its try
\* block: the exception reaches the try block of the calling frame.
ToolReturnsHandlerThrows ==
  /\ AtPc("tool")
  /\ AtCeiling(currentRecursionDepth)
  /\ \E throws \in 1..MaxThrows :
       LET newToolCall == [name |-> Top.tool.name, args |-> Top.tool.args,
                           response |-> "ok"]
           tcs == PushToolCall(toolCallsWithResponses, newToolCall)
       IN
       /\ executed' = Append(executed, newToolCall)
       /\ toolCallsWithResponses' = ResetAtTopLevel(currentRecursionDepth, tcs)
       /\ Unwound(CatchChain(stack, Len(stack), HandlerError, throws - 1,
                             tcs, inputTokens, outputTokens, errorLog,
                             Append(completions, CeilingOutcome(tcs)),
                             Append(events, Event("complete", Len(stack) + 1))))
  /\ UNCHANGED <<sideVars, abortController, abortedSignals, apiSettings, called,
                 progressLog, requests, hostCalls, tokenSum, startTokens,
                 leftover, aborts, abortInFlight, abortAtTool, roundFinalized,
                 other, finalRead, failed>>

NextThrow ==
  \/ Next
  \/ ReadDoneFinalHandlerThrows
  \/ ToolReturnsHandlerThrows

SpecThrow == Init /\ [][NextThrow]_vars

\* ------------------------------------------------------- termination
\* The steps a call in flight takes when something it awaits settles: the
\* request, the error body, the stream read, the Tool Host.
Settles ==
  \/ RequestFails
  \/ ErrorResponse
  \/ ResponseArrives
  \/ ResponseWithoutBody
  \/ ErrorBodyDecoded
  \/ ReadProgress
  \/ ReadError
  \/ ReadThrows
  \/ ReadDoneTool
  \/ ReadDoneFinal
  \/ ToolReturns
  \/ ToolMessagesThrow
  \/ ToolRejects

\* The first chat(messages) on a new instance.
chatFirst == ~called /\ chat

\* The first abort() of a call, or an abort() while no call is in flight.
abortFirst == aborts = 0 /\ abort

NextLive ==
  \/ chatFirst
  \/ abortFirst
  \/ Settles

\* Everything awaited eventually settles: the pending await of the call in
\* flight is not postponed forever.
SpecLive == Init /\ [][NextLive]_vars /\ WF_vars(Settles)

\* ------------------------------------------------------ default handlers
\* What context.getMessageId() may return: no id, or the id of a message.
MessageIds == {"", "m1"}

\* The onCompleteCallback set by the constructor, given the result and the
\* value of this.context.getMessageId(): the messages it passes to
\* this.context.updateMessage (the debug calls are left out).
defaultOnCompleteCallback(result, messageId) ==
  IF messageId = "" THEN <<>>
  ELSE << [id |-> messageId,
           reply |-> result.content,
           toolCalls |-> result.toolCalls,
           inputTokens |-> result.inputTokens,
           outputTokens |-> result.outputTokens,
           isActive |-> IF Len(result.toolCalls) > 0 THEN 1 ELSE 0] >>

\* The onReadingCallback, onToolCallsCallback and onErrorCallback set by the
\* constructor call debug only: they pass nothing to the context.
defaultOnReadingCallback(chunk) == <<>>
defaultOnToolCallsCallback(toolName) == <<>>
defaultOnErrorCallback(error, aborted) == <<>>

\* ----------------------------------------------------------- isReady()
\* Any settings, and any apiSchema over the fields providers list.
SchemaFields == {"model", "base", "key", "secret"}
InitReady ==
  /\ InitService
  /\ InitNoMessage
  /\ apiSettings \in [model : BOOLEAN, base : BOOLEAN, key : BOOLEAN]
  /\ apiSchema \in SUBSET SchemaFields

\* isReady() is called; its result is recorded.
isReadyCall ==
  /\ Len(readyResults) < MaxReady
  /\ readyResults' = Append(readyResults, isReady)
  /\ UNCHANGED <<codeVars, seenVars, other, apiSchema, messageVars, storeVars>>

NextReady == isReadyCall

SpecReady == InitReady /\ [][NextReady]_vars

\* ---------------------------------------------------- Message component
\* A tool call is [id, name, position]; id and position may be undefined.
\* The text of a reply is the sequence of its character indexes.
ToolCallIds == {Undefined, <<1>>, <<2>>}
ToolCallNames == {"t", "u"}
ToolCallPositions == {Undefined, <<-1>>, <<1>>}
ToolCalls == [id : ToolCallIds, name : ToolCallNames, position : ToolCallPositions]
Replies == {[i \in 1..n |-> i] : n \in 0..MaxReply}

\* JSON.stringify(toolCalls): members whose value is undefined are left out.
JSONStringify(tcs) ==
  [i \in DOMAIN tcs |->
     LET tc == tcs[i]
         keys == {"name"} \cup (IF tc.id # Undefined THEN {"id"} ELSE {})
                          \cup (IF tc.position # Undefined THEN {"position"} ELSE {})
     IN [k \in keys |-> tc[k]]]

\* JSON.parse(text): a member that is not there reads as undefined.
JSONParse(json) ==
  [i \in DOMAIN json |->
     [id |-> IF "id" \in DOMAIN json[i] THEN json[i]["id"] ELSE Undefined,
      name |-> json[i]["name"],
      position |-> IF "position" \in DOMAIN json[i] THEN json[i]["position"]
                   ELSE Undefined]]

\* The JavaScript values the toolCalls field of a message may hold: a value
\* carries its type; an array its items, a string its text.
JSUndefined == [type |-> "undefined"]
JSNull == [type |-> "null"]
JSArray(items) == [type |-> "array", items |-> items]
JSString(text) == [type |-> "string", text |-> text]

\* The text of a string: empty, not JSON, or the JSON text of a document.
EmptyText == [json |-> "empty"]
InvalidText == [json |-> "invalid"]
JSONText(document) == [json |-> "document", document |-> document]

\* JSON.stringify(value) of an array, an object or a string.
JSONStringifyValue(value) ==
  JSONText(IF value.type = "array"
           THEN [type |-> "array", items |-> JSONStringify(value.items)]
           ELSE value)

\* JSON.parse(text): throws on a text that is not JSON (ok is FALSE).
JSONParseText(text) ==
  IF text.json # "document" THEN [ok |-> FALSE]
  ELSE [ok |-> TRUE,
        value |-> IF text.document.type = "array"
                  THEN JSArray(JSONParse(text.document.items))
                  ELSE text.document]

\* !value
Falsy(value) ==
  \/ value.type \in {"undefined", "null"}
  \/ value.type = "string" /\ value.text = EmptyText

\* isNil(value)
isNil(value) == value.type \in {"undefined", "null"}

\* Variant: toolCalls is kept as it was given.
processMessageUnparsed(msg) == msg

\* processMessage(message) of a message (never null at its call sites):
\* toolCalls becomes the array a JSON string parses to, the array given, or
\* the empty array (missing, null, unparsable, parsed to a non-array, or a
\* value that is neither string nor array).
processMessage(msg) ==
  LET raw == msg.toolCalls
      toolCalls ==
        IF raw.type \in {"undefined", "null"} THEN <<>>
        ELSE IF raw.type = "string"
          THEN LET parsed == JSONParseText(raw.text) IN
               IF parsed.ok /\ parsed.value.type = "array"
               THEN parsed.value.items
               ELSE <<>>
        ELSE IF raw.type = "array" THEN raw.items
        ELSE <<>>
  IN [msg EXCEPT !.toolCalls = JSArray(toolCalls)]

\* parseToolCalls(rawToolCalls) of an array: the array itself.
parseToolCalls(rawToolCalls) == rawToolCalls

\* Variant: only the ids are compared.
isDuplicateById(currentToolCalls, toolCall) ==
  \E i \in DOMAIN currentToolCalls : currentToolCalls[i].id = toolCall.id

\* currentToolCalls.some(tc => tc.id === toolCall.id ||
\*   (tc.position === toolCall.position && tc.name === toolCall.name))
isDuplicate(currentToolCalls, toolCall) ==
  \E i \in DOMAIN currentToolCalls :
    \/ currentToolCalls[i].id = toolCall.id
    \/ /\ currentToolCalls[i].position = toolCall.position
       /\ currentToolCalls[i].name = toolCall.name

\* a.position || 0
PositionOrZero(tc) == IF tc.position = Undefined THEN 0 ELSE tc.position[1]

\* Array.prototype.sort with a comparator on the keys (a stable sort): the
\* element put at place k is the one with k - 1 elements before it.
StableSort(s, keys) ==
  LET n == Len(s)
      rank(i) == 1 + Cardinality({j \in 1..n :
                      keys[j] < keys[i] \/ (keys[j] = keys[i] /\ j < i)})
  IN [k \in 1..n |-> s[CHOOSE i \in 1..n : rank(i) = k]]

\* Variant: the list is left in arrival order.
SortByPositionSkipped(tcs) == tcs

\* updatedToolCalls.sort((a, b) => (a.position || 0) - (b.position || 0))
SortByPosition(tcs) ==
  StableSort(tcs, [i \in DOMAIN tcs |-> PositionOrZero(tcs[i])])

\* No two entries have the same (defined) id or the same (position, name).
DuplicateFree(tcs) ==
  \A i, j \in DOMAIN tcs :
    i < j =>
      /\ ~(tcs[i].id # Undefined /\ tcs[i].id = tcs[j].id)
      /\ ~(tcs[i].position = tcs[j].position /\ tcs[i].name = tcs[j].name)

\* The duplicate-free lists of at most MaxStored tool calls.
RECURSIVE ListsUpTo(_)
ListsUpTo(n) ==
  IF n = 0 THEN {<<>>}
  ELSE LET shorter == ListsUpTo(n - 1) IN
       shorter \cup {Append(l, tc) : l \in {x \in shorter : Len(x) = n - 1},
                                      tc \in ToolCalls}
StoredLists == {l \in ListsUpTo(MaxStored) : DuplicateFree(l)}

\* The 'store:toolCallAppended' events: data.messageId and data.toolCall,
\* addressed to this message or (one event) to another one.
Events ==
  [messageId : {"m1"}, toolCall : ToolCalls]
    \cup {[messageId |-> "m2",
           toolCall |-> [id |-> <<1>>, name |-> "t", position |-> <<1>>]]}

\* What the handler does with an event addressed to the message: "busy"
\* (it arrived while an update was awaited), "repeated" (its tool call is in
\* the stored list), "duplicate" (it has the id, or the position and name,
\* of another stored tool call), "added".
Fate(toolCall) ==
  IF isProcessingRef THEN [fate |-> "busy", toolCall |-> toolCall]
  ELSE IF \E i \in DOMAIN message.toolCalls : message.toolCalls[i] = toolCall
       THEN [fate |-> "repeated"]
  ELSE IF isDuplicate(message.toolCalls, toolCall) THEN [fate |-> "duplicate"]
  ELSE [fate |-> "added"]

\* A mounted Message component of a stored message m1.
InitMessage ==
  /\ InitService
  /\ InitNoStore
  /\ apiSettings \in {s \in Settings : s.key}
  /\ apiSchema = MoonshotSchema
  /\ message \in [id : {"m1"}, reply : {r \in Replies : Len(r) = MaxReply},
                  toolCalls : StoredLists, isActive : {FALSE}]
  /\ isProcessingRef = FALSE
  /\ toolCallsRef = message.toolCalls
  /\ pendingUpdate = <<>>
  /\ lastEvent = NoEvent
  /\ runningTool = FALSE
  /\ segments = <<>>

\* The handler of 'store:toolCallAppended' up to its await (or its return),
\* and updateMessage up to its await of db.run.
ToolCallAppended ==
  \E eventData \in Events :
    LET messageId == eventData.messageId
        toolCall == eventData.toolCall
        currentToolCalls == parseToolCalls(message.toolCalls)
        updatedToolCalls == SortByPosition(Append(currentToolCalls, toolCall))
    IN
    /\ lastEvent' = IF messageId = message.id
                    THEN Fate(toolCall)
                    ELSE lastEvent
    /\ IF /\ ~isProcessingRef
          /\ messageId # ""
          /\ messageId = message.id
          /\ ~isDuplicate(currentToolCalls, toolCall)
       THEN /\ isProcessingRef' = TRUE
            /\ pendingUpdate' =
                 <<[id |-> messageId, toolCalls |-> JSONStringify(updatedToolCalls),
                    updatedToolCalls |-> updatedToolCalls]>>
       ELSE UNCHANGED <<isProcessingRef, pendingUpdate>>
    /\ UNCHANGED <<codeVars, seenVars, other, readyVars, storeVars, message,
                   toolCallsRef, runningTool, segments>>

\* db.run resolves: the store is updated when the result is truthy; then
\* the handler resumes, sets toolCallsRef and leaves through finally.
UpdateMessageDone ==
  /\ pendingUpdate # <<>>
  /\ \E result \in BOOLEAN :
       message' =
         IF result /\ pendingUpdate[1].id = message.id
         THEN LET updatedMessage ==
                    processMessage([message EXCEPT !.toolCalls =
                      JSString(JSONText([type |-> "array",
                                         items |-> pendingUpdate[1].toolCalls]))])
              IN [message EXCEPT !.toolCalls = updatedMessage.toolCalls.items]
         ELSE message
  /\ toolCallsRef' = pendingUpdate[1].updatedToolCalls
  /\ pendingUpdate' = <<>>
  /\ isProcessingRef' = FALSE
  /\ UNCHANGED <<codeVars, seenVars, other, readyVars, storeVars, lastEvent,
                 runningTool, segments>>

\* String.prototype.substring(start, end): both arguments are clamped to
\* [0, length] and swapped when start > end.
Substring(str, start, end) ==
  LET n == Len(str)
      clamp(x) == IF x < 0 THEN 0 ELSE IF x > n THEN n ELSE x
      from == IF clamp(start) <= clamp(end) THEN clamp(start) ELSE clamp(end)
      to == IF clamp(start) <= clamp(end) THEN clamp(end) ELSE clamp(start)
  IN SubSeq(str, from + 1, to)

\* toolCalls.filter(tc => tc.position !== undefined && tc.position !== null)
FilterPositioned(tcs) == SelectSeq(tcs, LAMBDA tc : tc.position # Undefined)

\* .sort((a, b) => posA - posB) on the filtered list
SortedToolCalls(tcs) ==
  LET positioned == FilterPositioned(tcs) IN
  StableSort(positioned, [i \in DOMAIN positioned |-> positioned[i].position[1]])

\* Variant: the text before a tool call is taken from the start of the reply.
TextBeforeFromStart(reply, lastPosition, position) ==
  IF position > lastPosition
  THEN <<[type |-> "text", content |-> Substring(reply, 0, position)]>>
  ELSE <<>>

\* if (position > lastPosition) segments.push({ type: 'text', content:
\*   reply.substring(lastPosition, position) })
TextBefore(reply, lastPosition, position) ==
  IF position > lastPosition
  THEN <<[type |-> "text", content |-> Substring(reply, lastPosition, position)]>>
  ELSE <<>>

\* sortedToolCalls.forEach(...): the segments pushed, the last position and
\* the number of warnings logged after the first k tool calls.
RECURSIVE ForEachToolCall(_, _, _)
ForEachToolCall(reply, sorted, k) ==
  IF k = 0 THEN [segments |-> <<>>, lastPosition |-> 0, warnings |-> 0]
  ELSE LET before == ForEachToolCall(reply, sorted, k - 1)
           toolCall == sorted[k]
           position == toolCall.position[1]
       IN [segments |-> before.segments
                          \o TextBefore(reply, before.lastPosition, position)
                          \o <<[type |-> "tool", content |-> toolCall]>>,
           lastPosition |-> position,
           warnings |-> before.warnings
                          + (IF position < before.lastPosition THEN 1 ELSE 0)]

\* renderMessageContent() of a message with the parsed toolCalls, given
\* states.runningTool: the segments and the warnings logged.
renderMessageContent(msg, toolCalls, running) ==
  IF msg.reply = <<>> THEN [segments |-> <<>>, warnings |-> 0]
  ELSE
    LET sortedToolCalls == SortedToolCalls(toolCalls)
        loop == ForEachToolCall(msg.reply, sortedToolCalls, Len(sortedToolCalls))
        lastPosition == loop.lastPosition
        rest == IF lastPosition < Len(msg.reply)
                THEN <<[type |-> "text",
                        content |-> Substring(msg.reply, lastPosition, Len(msg.reply))]>>
                ELSE <<>>
        hasCompletedToolAtCurrentPosition ==
          \E i \in DOMAIN sortedToolCalls :
            sortedToolCalls[i].position[1] = lastPosition
        runningSegment ==
          IF running /\ msg.isActive /\ ~hasCompletedToolAtCurrentPosition
          THEN <<[type |-> "running-tool", content |-> "runningTool"]>>
          ELSE <<>>
    IN [segments |-> loop.segments \o rest \o runningSegment,
        warnings |-> loop.warnings]

\* The component renders: renderMessageContent() is called.
Render ==
  /\ segments = <<>>
  /\ segments' = <<renderMessageContent(message, message.toolCalls, runningTool)>>
  /\ UNCHANGED <<codeVars, seenVars, other, readyVars, storeVars, message,
                 isProcessingRef, toolCallsRef, pendingUpdate, lastEvent,
                 runningTool>>

\* Positions a tool call may carry in a render: before, in and beyond the
\* reply, or none.
RenderPositions == {Undefined} \cup {<<p>> : p \in (0 - 1)..(MaxReply + 1)}
RenderToolCalls == [id : {<<1>>, <<2>>}, name : {"t"}, position : RenderPositions]
RECURSIVE RenderLists(_)
RenderLists(n) ==
  IF n = 0 THEN {<<>>}
  ELSE LET shorter == RenderLists(n - 1) IN
       shorter \cup {Append(l, tc) : l \in {x \in shorter : Len(x) = n - 1},
                                      tc \in RenderToolCalls}

\* Any reply and any list of at most MaxCalls tool calls, a tool running or
\* not, the message active or not.
InitRender ==
  /\ InitService
  /\ InitNoStore
  /\ apiSettings \in {s \in Settings : s.key}
  /\ apiSchema = MoonshotSchema
  /\ message \in [id : {"m1"}, reply : Replies, toolCalls : RenderLists(MaxCalls),
                  isActive : BOOLEAN]
  /\ isProcessingRef = FALSE
  /\ toolCallsRef = message.toolCalls
  /\ pendingUpdate = <<>>
  /\ lastEvent = NoEvent
  /\ runningTool \in BOOLEAN
  /\ segments = <<>>

NextRender == Render

SpecRender == InitRender /\ [][NextRender]_vars

NextMessage ==
  \/ ToolCallAppended
  \/ UpdateMessageDone

SpecMessage == InitMessage /\ [][NextMessage]_vars

\* ------------------------------------------------------------ chat store
\* A stored message is [id, reply, toolCalls, isActive]: reply is the
\* sequence of its pieces of text ("a": a fragment appendReply added, "X":
\* the content of a completion payload), toolCalls a JavaScript value,
\* isActive 0 or 1.  The other columns are not kept.
JSNumber(n) == [type |-> "number", value |-> n]

StoreToolCallA == [id |-> <<1>>, name |-> "t", position |-> <<1>>]
StoreToolCallB == [id |-> Undefined, name |-> "u", position |-> Undefined]
StoreLists == {<<>>, <<StoreToolCallA, StoreToolCallB>>}
ArrayText(tcs) == JSONText([type |-> "array", items |-> JSONStringify(tcs)])

\* get().messages.find(m => m.id === id): <<>> or the message found.
FindMessage(msgs, id) ==
  LET S == {i \in DOMAIN msgs : msgs[i].id = id} IN
  IF S = {} THEN <<>> ELSE <<msgs[CHOOSE i \in S : \A j \in S : i <= j]>>

\* createMessage(message) up to its await of db.run (INSERT).
createMessage ==
  /\ dbCalls = <<>>
  /\ created < MaxMessages
  /\ \E toolCalls \in {JSUndefined, JSNull}
                         \cup {JSArray(l) : l \in StoreLists} :
       LET msgId == "m" \o ToString(created + 1)
           dbMessage ==
             [id |-> msgId, reply |-> <<>>, isActive |-> 0,
              toolCalls |-> IF Falsy(toolCalls) THEN JSString(ArrayText(<<>>))
                            ELSE JSString(JSONStringifyValue(toolCalls))]
       IN
       /\ dbCalls' = Append(dbCalls, [op |-> "createMessage",
                                      passed |-> toolCalls,
                                      dbMessage |-> dbMessage])
       /\ storeEvent' = [op |-> "createMessage", phase |-> "call"]
  /\ created' = created + 1
  /\ UNCHANGED <<codeVars, seenVars, other, readyVars, messageVars,
                 storeMessages>>

\* db.run of createMessage resolves: the processed message is added to the
\* messages state and returned.
createMessageDone ==
  /\ dbCalls # <<>>
  /\ Head(dbCalls).op = "createMessage"
  /\ LET processedMsg == processMessage(Head(dbCalls).dbMessage) IN
     /\ storeMessages' = Append(storeMessages, processedMsg)
     /\ storeEvent' = [op |-> "createMessage", phase |-> "done",
                       passed |-> Head(dbCalls).passed,
                       returned |-> processedMsg]
  /\ dbCalls' = Tail(dbCalls)
  /\ UNCHANGED <<codeVars, seenVars, other, readyVars, messageVars, created>>

\* db.run of createMessage rejects: the exception leaves createMessage.
createMessageFails ==
  /\ dbCalls # <<>>
  /\ Head(dbCalls).op = "createMessage"
  /\ storeEvent' = [op |-> "createMessage", phase |-> "threw"]
  /\ dbCalls' = Tail(dbCalls)
  /\ UNCHANGED <<codeVars, seenVars, other, readyVars, messageVars,
                 storeMessages, created>>

\* appendReply(msgId, reply) with a fragment of streamed text, for the
\* message createMessage added first or for a message that is not stored.
appendReply ==
  /\ \E msgId \in {"m0", "m1"} :
       LET found == FindMessage(storeMessages, msgId)
           reply == <<"a">>
           newReply == IF found # <<>>
                       THEN IF found[1].reply # <<>>
                            THEN found[1].reply \o reply
                            ELSE reply
                       ELSE <<>>
       IN
       /\ found # <<>> =>
            Len(SelectSeq(found[1].reply, LAMBDA piece : piece = "a"))
              < MaxAppends
       /\ storeMessages' =
            [i \in DOMAIN storeMessages |->
               IF found # <<>> /\ storeMessages[i] = found[1]
               THEN [storeMessages[i] EXCEPT !.reply = newReply]
               ELSE storeMessages[i]]
       /\ storeEvent' = [op |-> "appendReply", returned |-> newReply]
  /\ UNCHANGED <<codeVars, seenVars, other, readyVars, messageVars, dbCalls,
                 created>>

\* What updateMessage is called with: an id (maybe empty, maybe of no stored
\* message: "m1" is the first id createMessage draws) and any of reply,
\* toolCalls, isActive; the other columns are left out.
UpdateInputs ==
  [id : {"", "m1"},
   reply : {JSUndefined, JSString(<<>>), JSString(<<"X">>)},
   toolCalls : {JSUndefined} \cup {JSArray(l) : l \in StoreLists},
   isActive : {JSUndefined, JSNumber(0), JSNumber(1)}]

\* msg.reply = currentMessage?.reply || message.reply
UpdateReply(update, currentMessage) ==
  IF currentMessage # <<>> /\ currentMessage[1].reply # <<>>
  THEN currentMessage[1].reply
  ELSE update.reply.text

\* Variant: isActive is stored as requested.
shouldBeActiveAsRequested(update, currentMessage) == update.isActive.value = 1

\* const toolCalls = message.toolCalls || currentMessage?.toolCalls || [];
\* hasToolCalls = Array.isArray(toolCalls) && toolCalls.length > 0;
\* shouldBeActive = hasToolCalls || message.isActive === 1
shouldBeActive(update, currentMessage) ==
  LET toolCalls ==
        IF ~Falsy(update.toolCalls) THEN update.toolCalls
        ELSE IF currentMessage # <<>> /\ ~Falsy(currentMessage[1].toolCalls)
          THEN currentMessage[1].toolCalls
        ELSE JSArray(<<>>)
      hasToolCalls == toolCalls.type = "array" /\ Len(toolCalls.items) > 0
  IN hasToolCalls \/ update.isActive.value = 1

\* The msg updateMessage builds from its argument and the message in state:
\* a field the update does not carry stays undefined.
UpdateMsg(update, currentMessage) ==
  [id |-> update.id,
   reply |-> IF ~isNil(update.reply)
             THEN JSString(UpdateReply(update, currentMessage))
             ELSE JSUndefined,
   toolCalls |-> IF ~isNil(update.toolCalls)
                 THEN IF update.toolCalls.type = "array"
                      THEN JSString(JSONStringifyValue(update.toolCalls))
                      ELSE update.toolCalls
                 ELSE JSUndefined,
   isActive |-> IF ~isNil(update.isActive)
                THEN JSNumber(IF shouldBeActive(update, currentMessage)
                              THEN 1 ELSE 0)
                ELSE JSUndefined]

\* { ...currentMessage, ...msg }
MergeMessage(currentMessage, msg) ==
  [id |-> msg.id,
   reply |-> IF msg.reply # JSUndefined THEN msg.reply.text
             ELSE currentMessage.reply,
   toolCalls |-> IF msg.toolCalls # JSUndefined THEN msg.toolCalls
                 ELSE currentMessage.toolCalls,
   isActive |-> IF msg.isActive # JSUndefined THEN msg.isActive.value
                ELSE currentMessage.isActive]

\* Variant: the messages state is updated whatever db.run reported.
SetUpdatedAlways(msgs, msg, result) ==
  [i \in DOMAIN msgs |->
     IF msgs[i].id = msg.id
     THEN processMessage(MergeMessage(msgs[i], msg))
     ELSE msgs[i]]

\* if (result) set(produce(state => { index = findIndex(m => m.id === msg.id);
\*   if (index !== -1) state.messages[index] = processMessage({...}) }))
SetUpdated(msgs, msg, result) ==
  LET found == FindMessage(msgs, msg.id) IN
  IF result /\ found # <<>>
  THEN [i \in DOMAIN msgs |->
          IF msgs[i] = found[1]
          THEN processMessage(MergeMessage(msgs[i], msg))
          ELSE msgs[i]]
  ELSE msgs

\* updateMessage(message) up to its await of db.run (UPDATE), or up to its
\* return of false when there is no id or no column to update.
updateMessage ==
  /\ \E update \in UpdateInputs :
       LET currentMessage == FindMessage(storeMessages, update.id)
           msg == UpdateMsg(update, currentMessage)
           stats == {f \in {"reply", "toolCalls", "isActive"} :
                       msg[f] # JSUndefined}
       IN
       IF update.id # "" /\ stats # {}
       THEN /\ dbCalls = <<>>
            /\ dbCalls' = Append(dbCalls, [op |-> "updateMessage",
                                           update |-> update, msg |-> msg])
            /\ storeEvent' = [op |-> "updateMessage", phase |-> "call"]
       ELSE /\ dbCalls' = dbCalls
            /\ storeEvent' = [op |-> "updateMessage", phase |-> "skipped",
                              returned |-> FALSE]
  /\ UNCHANGED <<codeVars, seenVars, other, readyVars, messageVars,
                 storeMessages, created>>

\* db.run of updateMessage resolves with a truthy or a falsy result.
updateMessageDone ==
  /\ dbCalls # <<>>
  /\ Head(dbCalls).op = "updateMessage"
  /\ \E result \in BOOLEAN :
       /\ storeMessages' = SetUpdated(storeMessages, Head(dbCalls).msg, result)
       /\ storeEvent' = [op |-> "updateMessage", phase |-> "done",
                         returned |-> result]
  /\ dbCalls' = Tail(dbCalls)
  /\ UNCHANGED <<codeVars, seenVars, other, readyVars, messageVars, created>>

\* db.run of updateMessage rejects: the exception leaves updateMessage.
updateMessageFails ==
  /\ dbCalls # <<>>
  /\ Head(dbCalls).op = "updateMessage"
  /\ storeEvent' = [op |-> "updateMessage", phase |-> "threw"]
  /\ dbCalls' = Tail(dbCalls)
  /\ UNCHANGED <<codeVars, seenVars, other, readyVars, messageVars,
                 storeMessages, created>>

\* A number is NaN or counted in halves: Halves(n) is n / 2.
NaN == [k |-> "nan"]
Halves(n) == [k |-> "num", twice |-> n]
Whole(n) == Halves(2 * n)
\* No argument given.
NoArgument == [k |-> "undefined"]

\* x || d on numbers: d when x is NaN or 0.
OrElse(x, d) == IF x.k = "nan" \/ x.twice = 0 THEN d ELSE x
MathMin(x, y) == IF x.twice <= y.twice THEN x ELSE y
MathMax(x, y) == IF x.twice >= y.twice THEN x ELSE y

\* Math.max(1, Math.min(Number(limit) || 100, 1000))
sanitizedLimit(limit) ==
  MathMax(Whole(1), MathMin(OrElse(limit, Whole(100)), Whole(1000)))

\* Math.max(0, Number(offset) || 0)
sanitizedOffset(offset) == MathMax(Whole(0), OrElse(offset, Whole(0)))

\* The limits and offsets fetchMessages is called with: one of the two is
\* given, or none.
LimitsAndOffsets ==
  {<<limit, NoArgument>> :
     limit \in {NoArgument, NaN, Whole(0 - 1), Whole(0), Halves(1),
                Halves(3), Whole(2), Halves(2001)}}
    \cup {<<NoArgument, offset>> :
            offset \in {NoArgument, NaN, Halves(0 - 1), Halves(3)}}

\* What a query resolves with: no row, or one row.  The toolCalls column of
\* a row holds null or a string: empty, not JSON, or the JSON text of an
\* object, of null or of an array.
Rows ==
  [id : {"r1"}, reply : {<<>>}, isActive : {0},
   toolCalls :
     {JSNull, JSString(EmptyText), JSString(InvalidText),
      JSString(JSONText([type |-> "object"])), JSString(JSONText(JSNull))}
       \cup {JSString(ArrayText(l)) : l \in StoreLists}]
RowLists == {<<>>} \cup {<<row>> : row \in Rows}

\* fetchMessages({chatId, limit = 100, offset = 0}) up to its await of
\* db.all, or up to its return for the temporary chat; the keyword only adds
\* a condition to the query.
fetchMessages ==
  /\ \E temporary \in BOOLEAN, given \in LimitsAndOffsets :
       LET limit == given[1]
           offset == given[2]
       IN
       IF temporary
       THEN /\ storeMessages' = <<>>
            /\ dbCalls' = dbCalls
            /\ storeEvent' = [op |-> "fetchMessages", phase |-> "temporary",
                              returned |-> <<>>]
       ELSE LET query ==
                  [limit |-> sanitizedLimit(IF limit = NoArgument
                                            THEN Whole(100) ELSE limit),
                   offset |-> sanitizedOffset(IF offset = NoArgument
                                              THEN Whole(0) ELSE offset)]
            IN
            /\ dbCalls = <<>>
            /\ storeMessages' = storeMessages
            /\ dbCalls' = Append(dbCalls, [op |-> "fetchMessages",
                                           limit |-> limit, offset |-> offset,
                                           query |-> query])
            /\ storeEvent' = [op |-> "fetchMessages", phase |-> "call"]
  /\ UNCHANGED <<codeVars, seenVars, other, readyVars, messageVars, created>>

\* db.all of fetchMessages resolves with rows: they are processed and
\* replace the messages state.
fetchMessagesDone ==
  /\ dbCalls # <<>>
  /\ Head(dbCalls).op = "fetchMessages"
  /\ \E rows \in RowLists :
       LET processedMessages ==
             [i \in DOMAIN rows |->
                IF ~Falsy(rows[i].toolCalls) THEN processMessage(rows[i])
                ELSE [rows[i] EXCEPT !.toolCalls = JSArray(<<>>)]]
       IN
       /\ storeMessages' = processedMessages
       /\ storeEvent' = [op |-> "fetchMessages", phase |-> "done"]
  /\ dbCalls' = Tail(dbCalls)
  /\ UNCHANGED <<codeVars, seenVars, other, readyVars, messageVars, created>>

\* db.all of fetchMessages rejects: the catch block returns [].
fetchMessagesFails ==
  /\ dbCalls # <<>>
  /\ Head(dbCalls).op = "fetchMessages"
  /\ storeEvent' = [op |-> "fetchMessages", phase |-> "failed",
                    returned |-> <<>>]
  /\ dbCalls' = Tail(dbCalls)
  /\ UNCHANGED <<codeVars, seenVars, other, readyVars, messageVars,
                 storeMessages, created>>

NextStore ==
  \/ createMessage
  \/ createMessageDone
  \/ createMessageFails
  \/ appendReply
  \/ updateMessage
  \/ updateMessageDone
  \/ updateMessageFails
  \/ fetchMessages
  \/ fetchMessagesDone
  \/ fetchMessagesFails

SpecStore == Init /\ [][NextStore]_vars

\* ------------------------------------------------- overlapping calls
\* chat(messages) is called from outside while a top-level call is in flight
\* on the same instance.  The call in flight is a plain chain that started
\* on a clean instance, is awaiting the response to a request, and has not
\* been overlapped by a call that executed a tool.
chatOverlapping ==
  /\ AtPc("request")
  /\ Plain
  /\ Len(stack) <= MaxVaried + 1
  /\ ~leftover
  /\ startTokens = <<0, 0>>
  /\ aborts = 0
  /\ toolCallsWithResponses = executed
  /\ other' = [stack |-> stack, seen |-> Seen]
  /\ ChatEntry(<<>>, <<>>, toolCallsWithResponses, <<>>, <<>>)
  /\ called' = TRUE
  /\ escaped' = FALSE
  /\ errorLog' = <<>>
  /\ progressLog' = <<>>
  /\ hostCalls' = <<>>
  /\ executed' = <<>>
  /\ tokenSum' = <<0, 0>>
  /\ startTokens' = <<inputTokens, outputTokens>>
  /\ leftover' = (toolCallsWithResponses # <<>>)
  /\ aborts' = 0
  /\ abortInFlight' = [at |-> "none", reply |-> <<>>]
  /\ finalRead' = NoRead
  /\ failed' = {}
  /\ raised' = NoError
  /\ abortAtTool' = 0
  /\ roundFinalized' = <<>>
  /\ events' = <<>>
  /\ UNCHANGED <<sideVars, inputTokens, outputTokens, apiSettings>>

\* The later call has returned: the awaited promise of the suspended call
\* settles next.  (The suspended call resumes only then: the later call is
\* the one whose promises settle first.)
Switch ==
  /\ other.stack # <<>>
  /\ stack = <<>>
  /\ stack' = other.stack
  /\ other' = NoOther
  /\ called' = other.seen.called
  /\ completions' = other.seen.completions
  /\ errorLog' = other.seen.errorLog
  /\ progressLog' = other.seen.progressLog
  /\ requests' = other.seen.requests
  /\ hostCalls' = other.seen.hostCalls
  /\ executed' = other.seen.executed
  /\ tokenSum' = other.seen.tokenSum
  /\ startTokens' = other.seen.startTokens
  /\ leftover' = other.seen.leftover
  /\ aborts' = other.seen.aborts
  /\ abortInFlight' = other.seen.abortInFlight
  /\ finalRead' = other.seen.finalRead
  /\ failed' = other.seen.failed
  /\ raised' = other.seen.raised
  /\ abortAtTool' = other.seen.abortAtTool
  /\ roundFinalized' = other.seen.roundFinalized
  /\ events' = other.seen.events
  /\ UNCHANGED <<sideVars, inputTokens, outputTokens, toolCallsWithResponses,
                 currentRecursionDepth, abortController, abortedSignals,
                 apiSettings, escaped>>

NextOverlap ==
  \/ Next
  \/ chatOverlapping
  \/ Switch

\* One instance on which top-level calls may overlap.
SpecOverlap == Init /\ [][NextOverlap]_vars

\* ------------------------------------------------------------------ claims
\* The last top-level call has returned.
Returned == called /\ stack = <<>>

\* C1: every top-level chat call has invoked the completion callback exactly
\* once when it returns, on every path (also a response without body).
C1_ExactlyOneCompletion == Returned => Len(completions) = 1

C3_DepthCeiling ==
  /\ Len(requests) <= MAX_RECURSION_DEPTH
  /\ Len(hostCalls) <= MAX_RECURSION_DEPTH
  /\ Len(executed) <= MAX_RECURSION_DEPTH
  /\ Len(toolCallsWithResponses) <= MAX_RECURSION_DEPTH
  /\ currentRecursionDepth <= MAX_RECURSION_DEPTH
  /\ \A i \in DOMAIN completions :
       completions[i].content = CeilingText => completions[i].error.code = 500
  /\ (Returned /\ Len(executed) = Len(requests) /\ raised = NoError) =>
       /\ Len(requests) = MAX_RECURSION_DEPTH
       /\ Len(completions) = 1
       /\ completions[1].content = CeilingText
       /\ completions[1].error.code = 500

C3_Witness ==
  /\ Returned
  /\ Len(requests) = MAX_RECURSION_DEPTH
  /\ Len(executed) = MAX_RECURSION_DEPTH
  /\ Len(completions) = 1
  /\ completions[1].content = CeilingText

\* C4: a call that started with zeroed counters reports, in its completion
\* payload, the sums of the tokens its round-trips reported.
C4_TokenSums ==
  (called /\ startTokens = <<0, 0>>) =>
     \A i \in DOMAIN completions :
       /\ completions[i].inputTokens = tokenSum[1]
       /\ completions[i].outputTokens = tokenSum[2]

C4_Witness ==
  /\ Returned
  /\ startTokens = <<0, 0>>
  /\ Len(requests) >= 3
  /\ Len(completions) = 1
  /\ completions[1].inputTokens = 2
  /\ completions[1].outputTokens = 4

\* C5: after a top-level call has returned both token counters are zero.
C5_CountersZeroAfterReturn ==
  Returned => (inputTokens = 0 /\ outputTokens = 0)

\* C6: the completion payload's tool-call list is the list of the executed
\* tool calls in execution order, followed by the finalized calls of the
\* terminal round.
C6_ToolCallOrder ==
  Returned =>
    \A i \in DOMAIN completions :
      completions[i].toolCalls = executed \o finalRead.toolCalls

C6_Witness ==
  /\ Returned
  /\ Len(executed) >= 2
  /\ finalRead.toolCalls # <<>>
  /\ Len(completions) = 1

\* C7: when the first round-trip yields no pending tool, the call makes one
\* network request, never calls the Tool Host, and completes once with
\* exactly that round's finalized tool calls.
C7_NoToolShortCircuit ==
  (Returned /\ finalRead.round = 1) =>
     /\ Len(requests) = 1
     /\ hostCalls = <<>>
     /\ executed = <<>>
     /\ Len(completions) = 1
     /\ completions[1].toolCalls = finalRead.toolCalls

C7_Witness ==
  /\ Returned
  /\ finalRead.round = 1
  /\ leftover
  /\ Len(completions) = 1
  /\ completions[1].toolCalls # <<>>

\* C8: with a configuration that is not ready, chat issues no network request.
C8_NotReadyNoRequest == ~isReady => requests = <<>>

\* C9: a failing tool execution below the ceiling (failure value or
\* rejection, the tool messages being built without error) is recorded as a
\* ToolCall carrying the failure, is followed by a further network request,
\* and does not become the completion's error.
C9_ToolFailureContinues ==
  (Returned /\ raised # ToolMessagesError) =>
     \A f \in failed :
       f.args < MAX_RECURSION_DEPTH =>
         /\ Len(toolCallsWithResponses) >= f.args
         /\ toolCallsWithResponses[f.args].args = f.args
         /\ Len(requests) > f.args
         /\ \A i \in DOMAIN completions :
              completions[i].error # ErrorDescriptor(ToolError)

\* C10: an exception raised by the request, the body decoding, the parser,
\* the Tool Host or the tool-message construction never leaves the top-level
\* call; it is delivered as the error of the one completion.
C10_NoEscape ==
  /\ ~escaped
  /\ (Returned /\ raised # NoError) =>
       /\ Len(completions) = 1
       /\ completions[1].error = ErrorDescriptor(raised)

C10_Witness ==
  /\ Returned
  /\ raised = ToolError
  /\ Len(completions) = 1
  /\ completions[1].error.message = "tool"
\* C11: when a round fails with an exception, the one completion carries the
\* tool calls executed so far in the call and all the text the progress
\* callback delivered so far in the call.
C11_PartialOutputPreserved ==
  (Returned /\ raised # NoError /\ Len(completions) = 1) =>
     /\ completions[1].toolCalls = executed
     /\ completions[1].content = progressLog

\* C12: without overlapping calls, a step that executes a tool call appends
\* it to the accumulated list, and any other step leaves the list alone or
\* empties it at the entry of a top-level call (depth 0, nothing in flight).
C12_AppendOnly ==
  [][ IF Len(executed') = Len(executed) + 1
      THEN /\ stack # <<>>
           /\ toolCallsWithResponses' =
                Append(toolCallsWithResponses, executed'[Len(executed')])
      ELSE \/ toolCallsWithResponses' = toolCallsWithResponses
           \/ /\ toolCallsWithResponses' = <<>>
              /\ currentRecursionDepth = 0
              /\ stack = <<>>
              /\ stack' # <<>> ]_vars

C12_Witness ==
  /\ leftover
  /\ stack # <<>>
  /\ Len(toolCallsWithResponses) >= 2
  /\ toolCallsWithResponses = executed

\* C13: the depth counter equals the number of chat invocations in flight
\* (every invocation that returned has restored it), stays within
\* 0..MAX_RECURSION_DEPTH, and is 0 when no top-level call is in flight.
C13_DepthRestored ==
  /\ currentRecursionDepth = Len(stack)
  /\ currentRecursionDepth \in 0..MAX_RECURSION_DEPTH
  /\ stack = <<>> => currentRecursionDepth = 0

C13_Witness ==
  /\ Returned
  /\ Len(requests) >= 2
  /\ errorLog # <<>>
  /\ errorLog[Len(errorLog)].error = NoReaderError
  /\ currentRecursionDepth = 0

\* C14: after abort() was called while the Tool Host was awaited, no further
\* network request is issued and the call completes with an error flagged
\* as aborted.
C14_AbortDuringToolCancels ==
  (Returned /\ abortAtTool # 0) =>
     /\ Len(requests) = abortAtTool
     /\ Len(completions) = 1
     /\ completions[1].error # NoError
     /\ errorLog # <<>>
     /\ errorLog[Len(errorLog)].aborted

\* C15: only the innermost invocation awaits a request or a tool, one at a
\* time; the request of round k+1 was issued after the tool call of round k
\* was resolved, appended to the accumulated list and to the messages.
C15_Sequential ==
  /\ \A i \in 1..(Len(stack) - 1) : stack[i].pc = "chat"
  /\ Len(hostCalls) <= Len(requests)
  /\ Len(executed) + (IF AtPc("tool") THEN 1 ELSE 0) <= Len(hostCalls)
  /\ \A k \in 1..(Len(requests) - 1) :
       /\ Len(executed) >= k
       /\ Len(toolCallsWithResponses) >= k
       /\ toolCallsWithResponses[k] = executed[k]
       /\ requests[k + 1] =
            requests[k] \o
              makeToolMessages([name |-> executed[k].name, args |-> executed[k].args],
                               executed[k].response)

C15_Witness ==
  /\ AtPc("request")
  /\ Len(requests) = 3
  /\ Len(executed) = 2
  /\ Len(requests[3]) = 2

\* C16: the finalized tool calls that came with the pending tool call of a
\* non-terminal round are in the tool-call list of the completion that ends
\* the chain.
C16_FinalizedOfToolRoundKept ==
  (Returned /\ finalRead.round > 1 /\ roundFinalized # <<>>) =>
     \A i \in DOMAIN completions :
       /\ Len(completions[i].toolCalls) =
            Len(executed) + Len(roundFinalized) + Len(finalRead.toolCalls)
       /\ \A j \in DOMAIN roundFinalized :
            \E m \in DOMAIN completions[i].toolCalls :
              completions[i].toolCalls[m] = roundFinalized[j]

\* C17: with overlapping top-level calls on one instance, every completion
\* of a call lists only the tool calls executed for that call (and its
\* terminal round's finalized calls), a call that started with zeroed
\* counters reports only its own tokens, and the ceiling outcome comes only
\* to a call that made MAX_RECURSION_DEPTH requests itself.
C17_NoSharedState ==
  \A i \in DOMAIN completions :
    /\ completions[i].toolCalls = executed \o finalRead.toolCalls
    /\ startTokens = <<0, 0>> =>
         /\ completions[i].inputTokens = tokenSum[1]
         /\ completions[i].outputTokens = tokenSum[2]
    /\ completions[i].content = CeilingText =>
         Len(requests) = MAX_RECURSION_DEPTH

\* C18: the Tool Host gets client = the key's text before the first '--' and
\* name = all of the key after it; the recorded tool call keeps the key.
C18_SplitOnFirstSeparator ==
  \A i \in DOMAIN executed :
    LET key == executed[i].name
        h == hostCalls[executed[i].args]
    IN /\ h.client = Head(key)
       /\ <<h.name>> = Tail(key)

\* C19: a step that handles a non-2xx response (not aborted) ends the call
\* without parsing a stream, calling a tool or issuing a request; the error
\* callback gets aborted = false and the one completion carries the raised
\* error's code (500 when it has none) and the tool calls executed before.
C19_ErrorStatusEndsCall ==
  [][ ( /\ AtPc("errbody")
        /\ Top.status \notin 200..299
        /\ ~SignalAborted(Top)
        /\ stack' # stack ) =>
      ( /\ Top.reply = <<>>
        /\ Top.tool = NoTool
        /\ stack' = <<>>
        /\ requests' = requests
        /\ hostCalls' = hostCalls
        /\ progressLog' = progressLog
        /\ errorLog' = Append(errorLog, [error |-> raised', aborted |-> FALSE])
        /\ completions' = Append(completions,
             [content |-> <<>>, toolCalls |-> executed,
              inputTokens |-> inputTokens, outputTokens |-> outputTokens,
              error |-> [code |-> IF raised'.code # 0 THEN raised'.code ELSE 500,
                         message |-> raised'.message]]) ) ]_vars

C19_Witness ==
  /\ Returned
  /\ raised = raiseError(401)
  /\ Len(executed) >= 1
  /\ Len(completions) = 1
  /\ completions[1].error.code = 401
  /\ errorLog = <<[error |-> raised, aborted |-> FALSE]>>

\* The text held by the reply buffers of the invocations in flight, in the
\* order of the rounds.
RECURSIVE C20_Buffers(_)
C20_Buffers(stk) ==
  IF stk = <<>> THEN <<>>
  ELSE C20_Buffers(SubSeq(stk, 1, Len(stk) - 1)) \o stk[Len(stk)].reply

\* C20: the progress callback has been invoked once per fragment, in parse
\* order, for exactly the fragments added to the reply buffers; a step that
\* invokes it happens before any completion of the call, and a step that
\* completes invokes no progress callback.
C20_ProgressBeforeCompletion ==
  /\ [](stack # <<>> => progressLog = C20_Buffers(stack))
  /\ [][ /\ Len(progressLog') > Len(progressLog) => completions' = <<>>
         /\ Len(completions') > Len(completions) => progressLog' = progressLog
       ]_vars

C20_Witness ==
  /\ Returned
  /\ Len(progressLog) >= 1
  /\ Len(requests) >= 2
  /\ Len(completions) = 1
  /\ finalRead.round >= 2
\* The token of the round that threw was cancelled when the exception was
\* caught: abort() was called while that round awaited its response, its
\* error body, its stream or its tool.
C21_TokenCancelled ==
  \/ abortInFlight.at # "none"
  \/ /\ abortAtTool # 0
     /\ abortAtTool = Len(requests)
     /\ raised \in {ToolError, ToolMessagesError}

\* C21: a call that ended with an exception has invoked the error callback
\* once for it, before the one completion callback, with aborted = TRUE
\* exactly when the token of the throwing round was cancelled; the parser's
\* reports and the missing-body error are passed with aborted = FALSE.
C21_ErrorCallbackOnce ==
  /\ \A i \in DOMAIN errorLog :
       errorLog[i].error \in {ParserReport, NoReaderError} => ~errorLog[i].aborted
  /\ (Returned /\ raised # NoError) =>
       LET errs == {i \in DOMAIN events : events[i].kind = "error"}
           comps == {i \in DOMAIN events : events[i].kind = "complete"}
       IN /\ Cardinality(errs) = 1
          /\ Cardinality(comps) = 1
          /\ \A i \in errs, j \in comps : i < j
          /\ Cardinality({i \in DOMAIN errorLog : errorLog[i].error = raised}) = 1
          /\ errorLog[Len(errorLog)] =
               [error |-> raised, aborted |-> C21_TokenCancelled]

C21_Witness ==
  /\ Returned
  /\ raised = ToolError
  /\ abortAtTool = 1
  /\ Len(errorLog) = 2
  /\ errorLog[1] = [error |-> ParserReport, aborted |-> FALSE]
  /\ errorLog[2] = [error |-> ToolError, aborted |-> TRUE]
\* C22: the round in flight holds the current token, which no earlier round
\* of the call holds; while abort() has not been called during the call no
\* token of the call is cancelled (an abort() at idle cancels nothing later),
\* and such a call never ends with an abort error or an aborted flag.
C22_FreshToken ==
  /\ stack # <<>> =>
       /\ Top.signal = abortController
       /\ \A i \in 1..(Len(stack) - 1) : stack[i].signal # Top.signal
       /\ aborts = 0 => \A i \in DOMAIN stack : ~SignalAborted(stack[i])
  /\ (Returned /\ aborts = 0) =>
       /\ raised # AbortError
       /\ \A i \in DOMAIN errorLog : ~errorLog[i].aborted

C22_Witness ==
  /\ Returned
  /\ aborts = 0
  /\ abortController \in abortedSignals
  /\ Len(requests) >= 2
  /\ Len(completions) = 1
  /\ completions[1].error = NoError
\* C23: when everything awaited eventually settles, a call in flight
\* eventually returns, having issued at most MAX_RECURSION_DEPTH requests,
\* after a round without pending tool call, at the depth ceiling, or after
\* an error or cancellation was reported.
C23_Exit ==
  \/ finalRead # NoRead
  \/ completions # <<>> /\ completions[Len(completions)].content = CeilingText
  \/ \E i \in DOMAIN events : events[i].kind = "error"

C23_Terminates ==
  (stack # <<>>) ~>
     (Returned /\ Len(requests) <= MAX_RECURSION_DEPTH /\ C23_Exit)

C23_Witness ==
  /\ Returned
  /\ Len(requests) = MAX_RECURSION_DEPTH
  /\ finalRead # NoRead
  /\ finalRead.round = MAX_RECURSION_DEPTH
\* C24: every isReady() result is TRUE exactly when each of model, base, key
\* that the apiSchema lists is non-empty in the settings (fields the schema
\* does not list play no part), and the call changes no field.
C24_ReadyIffListedFieldsSet ==
  [][ readyResults' # readyResults =>
        /\ readyResults' =
             Append(readyResults,
                    \A f \in apiSchema \cap {"model", "base", "key"} : apiSettings[f])
        /\ UNCHANGED <<codeVars, apiSchema>> ]_vars

C24_Witness ==
  /\ readyResults = <<TRUE>>
  /\ ~apiSettings.model
  /\ "model" \notin apiSchema
  /\ "key" \in apiSchema
C26_DefaultHandlersOnlyLog ==
  \A messageId \in MessageIds :
    /\ \A i \in DOMAIN progressLog :
         defaultOnReadingCallback(progressLog[i]) = <<>>
    /\ \A i \in DOMAIN hostCalls :
         defaultOnToolCallsCallback(hostCalls[i].name) = <<>>
    /\ \A i \in DOMAIN errorLog :
         defaultOnErrorCallback(errorLog[i].error, errorLog[i].aborted) = <<>>
    /\ \A i \in DOMAIN completions :
         defaultOnCompleteCallback(completions[i], messageId) = <<>>
\* C27: the stored list of a message that was mounted with a duplicate-free
\* list has no two entries with the same id or the same (position, name);
\* an event whose tool call is already in the stored list changes neither
\* the list nor the update in flight, and applying an event to the stored
\* list of an idle handler twice gives what applying it once gives.
C27_Applied(tcs, toolCall) ==
  IF isDuplicate(tcs, toolCall) THEN tcs
  ELSE SortByPosition(Append(tcs, toolCall))

C27_DuplicateFree ==
  /\ [](DuplicateFree(message.toolCalls))
  /\ [](~isProcessingRef =>
          \A tc \in ToolCalls :
            C27_Applied(C27_Applied(message.toolCalls, tc), tc)
              = C27_Applied(message.toolCalls, tc))
  /\ [][ (lastEvent' # lastEvent /\ lastEvent'.fate = "repeated") =>
           UNCHANGED <<message, pendingUpdate>> ]_vars

C27_Witness ==
  /\ lastEvent.fate = "repeated"
  /\ Len(message.toolCalls) = MaxStored + 2
  /\ ~isProcessingRef

\* C28: when the handler is not busy and the update it awaited has been
\* stored, the tool call of the last event that arrived while it was busy
\* is in the stored list or is a duplicate of a stored tool call.
C28_DeferredNotDropped ==
  (lastEvent.fate = "busy" /\ ~isProcessingRef /\ toolCallsRef = message.toolCalls) =>
     isDuplicate(message.toolCalls, lastEvent.toolCall)

\* C29 (stored list): a step that changes the stored list leaves it ordered
\* by non-decreasing position, a missing position counting as 0.
C29_Ordered(tcs) ==
  \A i, j \in DOMAIN tcs : i < j => PositionOrZero(tcs[i]) <= PositionOrZero(tcs[j])

\* The 'tool' segments of a render, in order, and the concatenation of its
\* 'text' segments.
C29_Tools(segs) ==
  LET tools == SelectSeq(segs, LAMBDA seg : seg.type = "tool") IN
  [i \in DOMAIN tools |-> tools[i].content]

RECURSIVE C30_Text(_)
C30_Text(segs) ==
  IF segs = <<>> THEN <<>>
  ELSE (IF segs[1].type = "text" THEN segs[1].content ELSE <<>>)
         \o C30_Text(Tail(segs))

\* C29: a step that changes the stored list leaves it ordered by
\* non-decreasing position (a missing position counting as 0), and in
\* every state renderMessageContent of the stored message yields segments
\* (it is defined, whatever the positions) whose tool calls are in
\* non-decreasing position order.
C29_PositionsOrdered ==
  /\ [][ message'.toolCalls # message.toolCalls => C29_Ordered(message'.toolCalls) ]_vars
  /\ [](LET rendered == renderMessageContent(message, message.toolCalls, runningTool)
        IN /\ C29_Ordered(C29_Tools(rendered.segments))
           /\ rendered.warnings \in 0..Len(message.toolCalls)
           /\ \A i \in DOMAIN rendered.segments :
                rendered.segments[i].type \in {"text", "tool", "running-tool"})

C29_Witness ==
  /\ Len(message.toolCalls) = MaxStored + 2
  /\ lastEvent.fate = "added"
  /\ ~isProcessingRef
  /\ PositionOrZero(message.toolCalls[1]) < 0
  /\ message.toolCalls[2].position = Undefined
  /\ PositionOrZero(message.toolCalls[Len(message.toolCalls)]) > 0
  /\ renderMessageContent(message, message.toolCalls, runningTool).warnings = 1

\* C30: renderMessageContent of a non-empty reply returns segments whose
\* 'text' contents concatenated are the reply, and whose 'tool' contents are
\* the tool calls with a defined position, each once, in non-decreasing
\* position order.
C30_SegmentsCoverReply ==
  \A i \in DOMAIN segments :
    message.reply # <<>> =>
      LET tools == C29_Tools(segments[i].segments)
          positioned == FilterPositioned(message.toolCalls)
      IN /\ C30_Text(segments[i].segments) = message.reply
         /\ Len(tools) = Len(positioned)
         /\ \E perm \in [DOMAIN tools -> DOMAIN tools] :
              /\ \A a, b \in DOMAIN tools : a # b => perm[a] # perm[b]
              /\ \A a \in DOMAIN tools : tools[a] = positioned[perm[a]]
         /\ \A a, b \in DOMAIN tools :
              a < b => tools[a].position[1] <= tools[b].position[1]

C30_Witness ==
  /\ segments # <<>>
  /\ Len(message.reply) = MaxReply
  /\ Len(message.toolCalls) = MaxCalls
  /\ message.toolCalls[1].position = <<MaxReply + 1>>
  /\ message.toolCalls[2].position = <<0 - 1>>
  /\ segments[1].warnings = 1

\* C31: every message in the messages state of the chat store has an array
\* as toolCalls, after any sequence of createMessage, updateMessage and
\* fetchMessages (and appendReply); processMessage turns the JSON string of
\* an array into that array and any other value (missing, null, unparsable,
\* parsed to a non-array) into the empty array; the message createMessage
\* returns carries the tool-call list it was given.
C31_ToolCallsIsArray ==
  /\ \A i \in DOMAIN storeMessages : storeMessages[i].toolCalls.type = "array"
  /\ \A row \in Rows :
       processMessage(row).toolCalls =
         IF \E l \in StoreLists : row.toolCalls = JSString(ArrayText(l))
         THEN JSArray(CHOOSE l \in StoreLists : row.toolCalls = JSString(ArrayText(l)))
         ELSE JSArray(<<>>)
  /\ (storeEvent.op = "createMessage" /\ storeEvent.phase = "done") =>
       /\ storeEvent.returned = storeMessages[Len(storeMessages)]
       /\ storeEvent.returned.toolCalls =
            IF storeEvent.passed.type = "array" THEN storeEvent.passed
            ELSE JSArray(<<>>)

\* createMessage has returned a message given two tool calls, one of them
\* without id and position, next to a message fetched from a row.
C31_Witness ==
  /\ storeEvent.op = "createMessage"
  /\ storeEvent.phase = "done"
  /\ storeEvent.passed = JSArray(<<StoreToolCallA, StoreToolCallB>>)
  /\ Len(storeMessages) = 2
  /\ storeMessages[1].id = "r1"
  /\ storeMessages[1].toolCalls = JSArray(<<StoreToolCallA, StoreToolCallB>>)

\* C32: when updateMessage is called with an isActive value, the isActive it
\* writes is 0 only if 0 was requested and the message has no tool calls
\* (those of the update if it carries toolCalls, otherwise those in state),
\* and 1 whenever there is a tool call or 1 was requested; a successful
\* write puts that value in the messages state.
C32_ActiveWithToolCalls ==
  [][ /\ ( /\ dbCalls = <<>>
           /\ dbCalls' # <<>>
           /\ dbCalls'[1].op = "updateMessage"
           /\ dbCalls'[1].update.isActive # JSUndefined ) =>
          LET update == dbCalls'[1].update
              current == FindMessage(storeMessages, update.id)
              toolCalls == IF update.toolCalls # JSUndefined
                           THEN update.toolCalls.items
                           ELSE IF current # <<>>
                             THEN current[1].toolCalls.items
                           ELSE <<>>
          IN dbCalls'[1].msg.isActive =
               JSNumber(IF toolCalls # <<>> \/ update.isActive.value = 1
                        THEN 1 ELSE 0)
      /\ ( /\ dbCalls # <<>>
           /\ dbCalls' = <<>>
           /\ dbCalls[1].op = "updateMessage"
           /\ dbCalls[1].msg.isActive # JSUndefined
           /\ storeEvent'.phase = "done"
           /\ storeEvent'.returned ) =>
          \A i \in DOMAIN storeMessages' :
            storeMessages'[i].id = dbCalls[1].msg.id =>
              storeMessages'[i].isActive = dbCalls[1].msg.isActive.value
    ]_vars

\* isActive = 0 is requested, without toolCalls, for a message that has tool
\* calls in state: 1 is written.
C32_Witness ==
  /\ dbCalls # <<>>
  /\ dbCalls[1].op = "updateMessage"
  /\ dbCalls[1].update.isActive = JSNumber(0)
  /\ dbCalls[1].update.toolCalls = JSUndefined
  /\ dbCalls[1].msg.isActive = JSNumber(1)
  /\ \E i \in DOMAIN storeMessages :
       /\ storeMessages[i].id = dbCalls[1].update.id
       /\ storeMessages[i].isActive = 0
       /\ storeMessages[i].toolCalls.items # <<>>

\* C33: when a tool is running on an active message with a non-empty reply,
\* the segments renderMessageContent returns end with a 'running-tool'
\* segment, unless a completed tool call sits at (or beyond) the end of the
\* text; tool calls completed at earlier positions do not hide it.
C33_RunningToolShown ==
  \A i \in DOMAIN segments :
    ( /\ runningTool
      /\ message.isActive
      /\ message.reply # <<>>
      /\ ~\E k \in DOMAIN message.toolCalls :
            /\ message.toolCalls[k].position # Undefined
            /\ message.toolCalls[k].position[1] >= Len(message.reply) ) =>
      /\ segments[i].segments # <<>>
      /\ segments[i].segments[Len(segments[i].segments)].type = "running-tool"

\* C34: once an event has added a tool call without id, an event whose tool
\* call has no id either and differs from the stored ones in position or in
\* name is not a duplicate: the idle handler adds it too.
C34_IdlessBothKept ==
  \A toolCall \in ToolCalls :
    ( /\ ~isProcessingRef
      /\ lastEvent.fate = "added"
      /\ toolCallsRef = message.toolCalls
      /\ toolCall.id = Undefined
      /\ message.toolCalls # <<>>
      /\ \A k \in DOMAIN message.toolCalls :
           /\ message.toolCalls[k].id = Undefined
           /\ \/ message.toolCalls[k].position # toolCall.position
              \/ message.toolCalls[k].name # toolCall.name ) =>
      ~isDuplicate(parseToolCalls(message.toolCalls), toolCall)

\* The texts of the first k rounds in flight, one after the other.
RECURSIVE C35_Replies(_, _)
C35_Replies(stk, k) ==
  IF k = 0 THEN <<>> ELSE C35_Replies(stk, k - 1) \o stk[k].reply

\* C35: each round keeps its own reply buffer: while a call is in flight the
\* buffers of its rounds, in round order, hold the fragments streamed so far,
\* a fragment goes to the buffer of the round that streams it, and the
\* content of an outcome a round emits is that round's buffer (the text of
\* the earlier rounds is not in it).  The outcome of the depth ceiling is
\* emitted before a round begins and holds none of the streamed text.
C35_ContentOfEmittingRound ==
  /\ [](stack # <<>> => C35_Replies(stack, Len(stack)) = progressLog)
  /\ [][ /\ ( /\ stack # <<>>
              /\ progressLog' # progressLog ) =>
             stack' = WithTop(stack,
               [Top EXCEPT !.reply = Append(@, progressLog'[Len(progressLog')])])
         /\ ( /\ stack # <<>>
              /\ Len(completions') = Len(completions) + 1 ) =>
             LET outcome == completions'[Len(completions')]
                 round == events'[Len(events')].round
             IN /\ events'[Len(events')].kind = "complete"
                /\ IF round <= Len(stack)
                   THEN outcome.content = stack[round].reply
                   ELSE \A i \in DOMAIN outcome.content :
                          \A j \in DOMAIN progressLog :
                            outcome.content[i] # progressLog[j]
       ]_vars

\* A chain with a tool-call round has ended: each of its two rounds streamed
\* a fragment and the outcome holds the second one only.
C35_Witness ==
  /\ called
  /\ stack = <<>>
  /\ executed # <<>>
  /\ progressLog = <<1, 2>>
  /\ Len(completions) = 1
  /\ completions[1].content = <<2>>
  /\ completions[1].error = NoError

\* C36: when the completion handler throws while the outcome is delivered (by
\* the terminal round or at the depth ceiling), it is not invoked a second
\* time in the top-level call and no exception leaves chat().
C36_HandlerOnceNoEscape ==
  (called /\ stack = <<>> /\ raised = HandlerError) =>
    /\ Len(completions) <= 1
    /\ ~escaped

\* C37: when updateMessage stores an update that carries a reply, a message
\* whose reply in state is not empty keeps that reply (the supplied reply is
\* stored only over an empty one): text appendReply has accumulated is not
\* replaced by the content of a completion payload.
C37_AccumulatedReplyKept ==
  [][ ( /\ dbCalls # <<>>
        /\ dbCalls' = <<>>
        /\ dbCalls[1].op = "updateMessage"
        /\ dbCalls[1].update.reply # JSUndefined ) =>
        \A i \in DOMAIN storeMessages :
          ( /\ storeMessages[i].id = dbCalls[1].update.id
            /\ storeMessages[i].reply # <<>> ) =>
            /\ i \in DOMAIN storeMessages'
            /\ storeMessages'[i].reply = storeMessages[i].reply
    ]_vars

\* C38: updateMessage writes to the database only for an id and at least one
\* updatable field, and otherwise returns false leaving database and
\* messages state alone; it changes the messages state only when the write
\* has resolved with a truthy result, and then only the message with the
\* given id.
C38_StateAfterSuccessfulWrite ==
  /\ [](\A k \in DOMAIN dbCalls :
          dbCalls[k].op = "updateMessage" =>
            /\ dbCalls[k].update.id # ""
            /\ \/ ~isNil(dbCalls[k].update.reply)
               \/ ~isNil(dbCalls[k].update.toolCalls)
               \/ ~isNil(dbCalls[k].update.isActive))
  /\ [][ /\ ( /\ storeEvent'.op = "updateMessage"
              /\ storeEvent'.phase = "skipped" ) =>
             /\ storeEvent'.returned = FALSE
             /\ UNCHANGED <<dbCalls, storeMessages>>
         /\ ( /\ storeEvent'.op = "updateMessage"
              /\ storeEvent'.phase = "call" ) =>
             UNCHANGED storeMessages
         /\ ( /\ dbCalls # <<>>
              /\ dbCalls' = <<>>
              /\ dbCalls[1].op = "updateMessage" ) =>
             /\ storeMessages' # storeMessages =>
                  /\ storeEvent'.phase = "done"
                  /\ storeEvent'.returned = TRUE
             /\ Len(storeMessages') = Len(storeMessages)
             /\ \A i \in DOMAIN storeMessages :
                  storeMessages[i].id # dbCalls[1].update.id =>
                    storeMessages'[i] = storeMessages[i]
       ]_vars

\* A successful update of the first of two stored messages.
C38_Witness ==
  /\ storeEvent.op = "updateMessage"
  /\ storeEvent.phase = "done"
  /\ storeEvent.returned = TRUE
  /\ Len(storeMessages) = 2
  /\ storeMessages[1].id = "m1"
  /\ storeMessages[1].reply = <<"X">>
  /\ storeMessages[1].isActive = 1
  /\ storeMessages[2].reply = <<>>
  /\ storeMessages[2].isActive = 0

\* C39: the limit fetchMessages sends to the database for a non-temporary
\* chat is a whole number from 1 to 1000 (100 when the limit given is 0 or
\* not a number) and the offset is not negative, whatever limit and offset
\* were given; when the query fails, fetchMessages returns an empty list and
\* leaves the messages state unchanged.
C39_SanitizedQuery ==
  /\ [](\A k \in DOMAIN dbCalls :
          dbCalls[k].op = "fetchMessages" =>
            /\ dbCalls[k].query.limit.k = "num"
            /\ dbCalls[k].query.limit.twice % 2 = 0
            /\ dbCalls[k].query.limit.twice >= 2 * 1
            /\ dbCalls[k].query.limit.twice <= 2 * 1000
            /\ dbCalls[k].limit \in {NaN, Whole(0)} =>
                 dbCalls[k].query.limit = Whole(100)
            /\ dbCalls[k].query.offset.k = "num"
            /\ dbCalls[k].query.offset.twice >= 0)
  /\ [][ ( /\ storeEvent'.op = "fetchMessages"
           /\ storeEvent'.phase = "failed"
           /\ dbCalls # dbCalls' ) =>
           /\ storeEvent'.returned = <<>>
           /\ UNCHANGED storeMessages
       ]_vars
====
